---- MODULE Spec2Model ----
(***************************************************************************)
(* Model of the query-building workflow of linkq (queryBuildingWorkflow    *)
(* and its three search handlers), of the Cypher executor it calls and of  *)
(* the connection singleton the executor consults; of the result pipeline  *)
(* (formatCypherResult, convertToSparqlResultsFormat); of the pattern      *)
(* extractor parseCypherQuery; and of the run-query mutation with its      *)
(* explanation request.                                                    *)
(*                                                                         *)
(* Text is a sequence of lexemes.  Each of the three search markers is one *)
(* lexeme: a marker contains ':' only as its last character, so no proper  *)
(* suffix of one marker is a prefix of another and two occurrences never   *)
(* overlap; scanning for a marker lexeme is scanning for the marker.  The  *)
(* stop words are lexemes too, in three letter cases.                      *)
(*                                                                         *)
(* Every await of the code is a point where the workflow is suspended; an  *)
(* action is the resumption of one await, run up to the next await.        *)
(***************************************************************************)
EXTENDS Integers, Sequences, FiniteSets, TLC

\* ------------------------------------------------------------------ bounds
MaxLen == 3
MaxChatFaults == 1
MaxCols == 3
MaxRows == 2
MaxPieces == 3
MaxCalls == 3
MaxHistory == 3
MaxRuns == 2
MaxThunks == 2
MaxChunks == 200
MaxQueryLen == 3

\* --------------------------------------------------------------- constants
QUERY_BUILDING_MAX_LOOPS == 20
ENTITY_SEARCH_PREFIX == "Entity Search:"
PROPERTIES_SEARCH_PREFIX == "Properties Search:"
TAIL_SEARCH_PREFIX == "Tail Search:"
NOT_CONNECTED == "Not connected to Neo4j"
KG_NAME == "Neo4j Knowledge Graph"
INITIAL_QUERY_BUILDING_SYSTEM_MESSAGE ==
  "You are an AI assistant that helps construct Cypher queries for a Neo4j knowledge graph. [...] When you're ready to stop searching and construct the query, respond with STOP."
QUERY_BUILDING_SYSTEM_MESSAGE ==
  "Now construct a Cypher query that answers the user's question using the entity and relationship IDs you've found. The query should be syntactically correct Neo4j Cypher."

SP == " "
COMMA == ","

\* The lexemes the texts of the exhaustive runs are built from: whitespace,
\* the three markers, the comma, a word character, a character that is not
\* a letter, a digit or an underscore, and the stop word in three letter
\* cases.
Alphabet ==
  {SP, ENTITY_SEARCH_PREFIX, PROPERTIES_SEARCH_PREFIX, TAIL_SEARCH_PREFIX,
   COMMA, "a", "]", "STOP", "stop", "Stop"}

WordChars == {"a", "A", "STOP", "stop", "Stop"}

Texts(n) == UNION {[1..k -> Alphabet] : k \in 0..n}

\* Replies the chat transport delivers during a whole run of the workflow.
Replies ==
  { <<"STOP">>,
    <<SP, "stop", SP>>,
    <<ENTITY_SEARCH_PREFIX, SP, "a">>,
    <<"a", PROPERTIES_SEARCH_PREFIX, "a">>,
    <<TAIL_SEARCH_PREFIX, "a", COMMA, SP, "a">>,
    <<TAIL_SEARCH_PREFIX, "a", COMMA, "a", "]">>,
    <<TAIL_SEARCH_PREFIX, "a">>,
    <<"a", TAIL_SEARCH_PREFIX, "a", COMMA, "a">>,
    <<ENTITY_SEARCH_PREFIX, "a", ENTITY_SEARCH_PREFIX, "a">>,
    <<TAIL_SEARCH_PREFIX, PROPERTIES_SEARCH_PREFIX, "a">>,
    <<"a">> }

ChatErrors == {"chat transport failed"}
StoreErrors == {"query rejected"}

NoReply == <<"<none>">>
NoTurn == [kind |-> "none", stage |-> "", detail |-> "", content |-> <<>>]
NoQuery ==
  [template |-> "none", text |-> <<>>, relationshipType |-> <<>>,
   param |-> <<>>]
NoFault == [src |-> "none", class |-> "", msg |-> ""]
NoSettled == [kind |-> "none", empty |-> FALSE, msg |-> ""]

\* ------------------------------------------------------- string functions
RECURSIVE TrimStart(_)
TrimStart(s) ==
  IF s = <<>> THEN s
  ELSE IF Head(s) = SP THEN TrimStart(Tail(s)) ELSE s

RECURSIVE TrimEnd(_)
TrimEnd(s) ==
  IF s = <<>> THEN s
  ELSE IF s[Len(s)] = SP THEN TrimEnd(SubSeq(s, 1, Len(s) - 1)) ELSE s

Trim(s) == TrimEnd(TrimStart(s))

UpperLexeme(c) ==
  CASE c = "stop" -> "STOP"
    [] c = "Stop" -> "STOP"
    [] c = "a" -> "A"
    [] c = ENTITY_SEARCH_PREFIX -> "ENTITY SEARCH:"
    [] c = PROPERTIES_SEARCH_PREFIX -> "PROPERTIES SEARCH:"
    [] c = TAIL_SEARCH_PREFIX -> "TAIL SEARCH:"
    [] OTHER -> c

ToUpperCase(s) == [i \in 1..Len(s) |-> UpperLexeme(s[i])]

Includes(s, m) == \E i \in 1..Len(s) : s[i] = m

StartsWith(s, m) == Len(s) >= 1 /\ s[1] = m

\* Position of the first occurrence of m in s, 0 when there is none.
IndexOf(s, m) ==
  IF Includes(s, m)
  THEN CHOOSE i \in 1..Len(s) : s[i] = m /\ \A j \in 1..(i - 1) : s[j] # m
  ELSE 0

\* String.prototype.split: the pieces of s between the occurrences of m.
RECURSIVE Split(_, _)
Split(s, m) ==
  IF IndexOf(s, m) = 0 THEN <<s>>
  ELSE <<SubSeq(s, 1, IndexOf(s, m) - 1)>>
         \o Split(SubSeq(s, IndexOf(s, m) + 1, Len(s)), m)

\* String.prototype.replace(m, ""): s without its first occurrence of m.
ReplaceFirst(s, m) ==
  IF IndexOf(s, m) = 0 THEN s
  ELSE SubSeq(s, 1, IndexOf(s, m) - 1) \o SubSeq(s, IndexOf(s, m) + 1, Len(s))

\* ------------------------------------------------------------------ state
VARIABLES
  pc,               \* the await the workflow is suspended at, or done/failed
  NO_FOREVER_LOOP,  \* the loop counter of queryBuildingWorkflow
  llmResponse,      \* the reply the loop classifies
  handler,          \* the search handler the current iteration runs in
  searchArg,        \* the payload handed to that handler
  query,            \* the query the current iteration handed to the store
  sent,             \* the last chat turn handed to sendMessages
  driver,           \* Neo4jConnection.driver is not null
  result,           \* the value queryBuildingWorkflow returned
  delivered,        \* history: the last reply the chat transport delivered
  fault,            \* the error the current iteration caught or died of
  chatFaults,       \* history: number of sendMessages calls that failed
  loopChats,        \* history: sendMessages calls after the initial turn,
                    \*          the final turn excluded
  finalSent,        \* history: number of final-query turns sent
  exitBy,           \* history: how the loop ended
  inFlight,         \* history: store queries issued and not yet answered
  runQueryPc,       \* the await Neo4jConnection.runQuery is suspended at
  settled,          \* what session.run settled with
  sessions,         \* sessions opened by runQuery and not closed
  nzPc,             \* the step the result pipeline is at
  raw,              \* the store result handed to the result pipeline
  formatted,        \* what formatCypherResult returned
  sparql,           \* what convertToSparqlResultsFormat returned
  calls,            \* history: the parseCypherQuery calls and their outcomes
  mutation,         \* the status of the run-query mutation
  results,          \* the results slice of the store
  summaryPc,        \* the await the explanation request is suspended at
  chatLog,          \* history: the turns the explanation request sent
  graphData,        \* the graph QueryGraph computed from the current query
  queries,          \* state.queryHistory.queries
  runs,             \* the run-query mutations started, each with its step
  connection,       \* the neo4jConnection slice of the store
  thunks,           \* the connect and disconnect thunks not yet settled
  drivers,          \* history: drivers created and not closed
  upload,           \* the uploadDocument call and the requests it posted
  idTable           \* IDTableContainer: its inputs and its nodeProperties

vars ==
  <<pc, NO_FOREVER_LOOP, llmResponse, handler, searchArg, query, sent,
    driver, result, delivered, fault, chatFaults, loopChats, finalSent,
    exitBy, inFlight, runQueryPc, settled, sessions, nzPc, raw, formatted,
    sparql, calls, mutation, results, summaryPc, chatLog, graphData,
    queries, runs, connection, thunks, drivers, upload, idTable>>

wfVars ==
  <<pc, NO_FOREVER_LOOP, llmResponse, handler, searchArg, query, sent,
    driver, result, delivered, fault, chatFaults, loopChats, finalSent,
    exitBy, inFlight, runQueryPc, settled, sessions>>

nzVars == <<nzPc, raw, formatted, sparql>>

pzVars == <<calls, graphData>>

rqVars == <<mutation, results, summaryPc, chatLog>>

hsVars == <<queries, runs>>

cnVars == <<connection, thunks>>

\* The variables of the forms beside the query editor.
formVars == <<hsVars, cnVars, upload, idTable>>

\* The variables of everything but the workflow, but the result pipeline,
\* but the parser, and but the run-query mutation.
notDriverVars == <<nzVars, pzVars, rqVars, formVars>>
notWfVars == <<notDriverVars, drivers>>
notNzVars == <<wfVars, pzVars, rqVars, formVars, drivers>>
notPzVars == <<wfVars, nzVars, rqVars, formVars, drivers>>
notRqVars == <<wfVars, pzVars, formVars, drivers>>

\* ------------------------------------------------------------- chat turns
\* A turn's content is the sequence of the parts of its template literal; a
\* part "${x}" stands for the interpolated variable x, whose value the state
\* holds (searchArg, query, detail).
InitialTurn ==
  [kind |-> "initial", stage |-> "Query Building", detail |-> "",
   content |-> <<INITIAL_QUERY_BUILDING_SYSTEM_MESSAGE>>]

InvalidTurnBare ==
  [kind |-> "invalid", stage |-> "Query Building", detail |-> "",
   content |->
     <<"That was an invalid response. If you are done, just respond with STOP. Follow the specified format. ">>]

InvalidTurn ==
  [kind |-> "invalid", stage |-> "Query Building", detail |-> "",
   content |->
     <<"That was an invalid response. If you are done, just respond with STOP. Follow the specified format. ",
       INITIAL_QUERY_BUILDING_SYSTEM_MESSAGE>>]

FinalTurn ==
  [kind |-> "final", stage |-> "Query Building", detail |-> "",
   content |->
     <<QUERY_BUILDING_SYSTEM_MESSAGE,
       " Now construct a query that answers the user's question: ",
       "${text}">>]

FormatTurn ==
  [kind |-> "format", stage |-> "Tail Search", detail |-> "",
   content |->
     <<"Your response did not follow the correct format. Please provide: Entity ID, Relationship Type">>]

Stage(h) ==
  CASE h = "entity" -> "Entity Fuzzy Searching"
    [] h = "properties" -> "Property Search"
    [] h = "tail" -> "Tail Search"

NoMatchContent(h) ==
  CASE h = "entity" ->
         <<KG_NAME, " did not find any entities matching ", "${searchTerm}",
           ". You may need to rephrase or simplify your entity search">>
    [] h = "properties" ->
         <<KG_NAME, " did not find any entity with ID ", "${entityId}",
           ". Are you sure that entity exists?">>
    [] h = "tail" ->
         <<KG_NAME, " did not find any entities connected to ", "${entityId}",
           " via ", "${relationshipType}",
           " relationship. Are you sure that entity has that relationship?">>

FoundContent(h) ==
  CASE h = "entity" ->
         <<"Found entities in ", KG_NAME, ":\n", "${entitiesText}">>
    [] h = "properties" ->
         <<"Properties for entity ", "${entityId}", ":\n",
           "${propertiesText}">>
    [] h = "tail" ->
         <<"Related entities via ", "${relationshipType}", ":\n",
           "${relatedEntitiesText}">>

ErrorPrefix(h) ==
  CASE h = "entity" -> "Error searching for entities: "
    [] h = "properties" -> "Error getting properties for entity: "
    [] h = "tail" -> "Error finding related entities: "

\* The turn a handler sends for a store result: result.records.length === 0
\* or not.
ResultTurn(h, empty) ==
  [kind |-> IF empty THEN "noMatch" ELSE "found", stage |-> Stage(h),
   detail |-> "",
   content |-> IF empty THEN NoMatchContent(h) ELSE FoundContent(h)]

ErrorTurnUnknown(h, msg) ==
  [kind |-> "error", stage |-> Stage(h), detail |-> "Unknown error",
   content |-> <<ErrorPrefix(h), "${error.message}">>]

\* The turn a handler's catch block sends: error.message of the caught error.
ErrorTurn(h, msg) ==
  [kind |-> "error", stage |-> Stage(h), detail |-> msg,
   content |-> <<ErrorPrefix(h), "${error.message}">>]

\* ------------------------------------------------------------- classifier
LoopGuardInclusive(n) == n <= QUERY_BUILDING_MAX_LOOPS

LoopGuard(n) == n < QUERY_BUILDING_MAX_LOOPS

IsStopCaseSensitive(responseText) == responseText = <<"STOP">>

IsStop(responseText) == ToUpperCase(responseText) = <<"STOP">>

ClassifyPropertiesFirst(responseText) ==
  IF IsStop(responseText) THEN "stop"
  ELSE IF Includes(responseText, PROPERTIES_SEARCH_PREFIX) THEN "properties"
  ELSE IF Includes(responseText, ENTITY_SEARCH_PREFIX) THEN "entity"
  ELSE IF StartsWith(responseText, TAIL_SEARCH_PREFIX) THEN "tail"
  ELSE "invalid"

ClassifyTailAnywhere(responseText) ==
  IF IsStop(responseText) THEN "stop"
  ELSE IF Includes(responseText, ENTITY_SEARCH_PREFIX) THEN "entity"
  ELSE IF Includes(responseText, PROPERTIES_SEARCH_PREFIX) THEN "properties"
  ELSE IF Includes(responseText, TAIL_SEARCH_PREFIX) THEN "tail"
  ELSE "invalid"

\* The if / else-if chain of the loop body.
Classify(responseText) ==
  IF IsStop(responseText) THEN "stop"
  ELSE IF Includes(responseText, ENTITY_SEARCH_PREFIX) THEN "entity"
  ELSE IF Includes(responseText, PROPERTIES_SEARCH_PREFIX) THEN "properties"
  ELSE IF StartsWith(responseText, TAIL_SEARCH_PREFIX) THEN "tail"
  ELSE "invalid"

\* The argument expression of each handler call.
Payload(kind, responseText) ==
  CASE kind = "entity" -> Trim(Split(responseText, ENTITY_SEARCH_PREFIX)[2])
    [] kind = "properties" ->
         Trim(Split(responseText, PROPERTIES_SEARCH_PREFIX)[2])
    [] kind = "tail" -> Trim(ReplaceFirst(responseText, TAIL_SEARCH_PREFIX))
    [] OTHER -> <<>>

\* --------------------------------------------------------------- handlers
\* What a step leaves behind: the await it stops at, the turn it sent (NoTurn
\* when it stopped at the store call) and the handler frame.
Outcome(p, n, h, arg, q, t, f, e) ==
  [pc |-> p, loops |-> n, handler |-> h, searchArg |-> arg, query |-> q,
   turn |-> t, fault |-> f, exitBy |-> e]

\* The query texts: the parts of each template literal, the interpolated
\* relationship type in its place.
ENTITY_QUERY ==
  <<"MATCH (e:__Entity__) WHERE e.id CONTAINS $searchTerm OR e.description CONTAINS $searchTerm RETURN e.id AS entityId, e.description AS description LIMIT 5">>

PROPERTIES_QUERY ==
  <<"MATCH (e:__Entity__ {id: $entityId}) RETURN properties(e) AS properties LIMIT 1">>

TailQueryText(relationshipType) ==
  <<"MATCH (e1:__Entity__ {id: $entityId})-[r:">> \o relationshipType
    \o <<"]->(e2:__Entity__) RETURN e2.id AS relatedEntityId, e2.description AS description LIMIT 5">>

EntityQueryInterpolated(searchTerm) ==
  [template |-> "entity",
   text |-> <<"MATCH (e:__Entity__) WHERE e.id CONTAINS '">> \o searchTerm
              \o <<"' RETURN e.id AS entityId, e.description AS description LIMIT 5">>,
   relationshipType |-> <<>>, param |-> <<>>]

EntityQuery(searchTerm) ==
  [template |-> "entity", text |-> ENTITY_QUERY, relationshipType |-> <<>>,
   param |-> searchTerm]

PropertiesQuery(entityId) ==
  [template |-> "properties", text |-> PROPERTIES_QUERY,
   relationshipType |-> <<>>, param |-> entityId]

TailQuery(entityId, relationshipType) ==
  [template |-> "tail", text |-> TailQueryText(relationshipType),
   relationshipType |-> relationshipType, param |-> entityId]

\* The errors the calls raise: the executor's own Error, the store driver's
\* exception, the chat transport's rejection.
NotConnectedError ==
  [src |-> "store", class |-> "Error", msg |-> NOT_CONNECTED]

StoreError(msg) == [src |-> "store", class |-> "Neo4jError", msg |-> msg]

ChatError(msg) == [src |-> "chat", class |-> "Error", msg |-> msg]

\* The catch block of runCypherQuery: throw error.
Rethrow(error) == error

\* Neo4jConnection.getSession, on a connection that holds a driver: one more
\* session is open.
GetSession(open) == open + 1

\* A finally block that closes the session only after a result.
CloseSessionOnResult(open, kind) == IF kind = "result" THEN open - 1 ELSE open

\* The finally block of Neo4jConnection.runQuery: session.close, whatever
\* session.run settled with.
CloseSession(open, kind) == open - 1

RunCypherQueryUnchecked(h, arg, q, n, conn) ==
  [pc |-> "awaitStore", loops |-> n, handler |-> h, searchArg |-> arg,
   query |-> q, turn |-> NoTurn, fault |-> NoFault, exitBy |-> "none"]

\* runCypherQuery as called by handler h: not connected throws before the
\* store is reached, and the handler's catch block sends the error turn.
RunCypherQuery(h, arg, q, n, conn) ==
  IF conn
  THEN Outcome("awaitStore", n, h, arg, q, NoTurn, NoFault, "none")
  ELSE Outcome("awaitSend", n, h, arg, NoQuery, ErrorTurn(h, NOT_CONNECTED),
               NotConnectedError, "none")

HandleEntitySearch(searchTerm, n, conn) ==
  RunCypherQuery("entity", searchTerm, EntityQuery(searchTerm), n, conn)

HandlePropertiesSearch(entityId, n, conn) ==
  RunCypherQuery("properties", entityId, PropertiesQuery(entityId), n, conn)

TailFormatOkAtLeastTwo(split) == Len(split) >= 2

\* The test that decides whether the payload is taken as two fields.
TailFormatOk(split) == Len(split) = 2

HandleRelatedEntitiesSearch(text, n, conn) ==
  LET split == Split(text, COMMA) IN
  IF ~TailFormatOk(split)
  THEN Outcome("awaitSend", n, "tail", text, NoQuery, FormatTurn, NoFault,
               "none")
  ELSE RunCypherQuery("tail", text,
                      TailQuery(Trim(split[1]), Trim(split[2])), n, conn)

\* queryBuildingWorkflow from the loop head, with llmResponse = resp, up to
\* the next await.
Iterate(resp, n, conn) ==
  IF ~LoopGuard(n)
  THEN Outcome("awaitFinal", n, "none", <<>>, NoQuery, FinalTurn, NoFault,
               "ceiling")
  ELSE
    LET responseText == Trim(resp)
        kind == Classify(responseText)
        arg == Payload(kind, responseText)
    IN CASE kind = "stop" ->
              Outcome("awaitFinal", n + 1, "none", <<>>, NoQuery, FinalTurn,
                      NoFault, "stop")
         [] kind = "entity" -> HandleEntitySearch(arg, n + 1, conn)
         [] kind = "properties" -> HandlePropertiesSearch(arg, n + 1, conn)
         [] kind = "tail" -> HandleRelatedEntitiesSearch(arg, n + 1, conn)
         [] OTHER ->
              Outcome("awaitSend", n + 1, "none", <<>>, NoQuery, InvalidTurn,
                      NoFault, "none")

\* The value queryBuildingWorkflow returns: the reply to the final turn.
ReturnValueStale(finalReply, lastLoopReply) == lastLoopReply

ReturnValue(finalReply, lastLoopReply) == finalReply

LoopSends(t) == IF t.kind \in {"none", "final"} THEN 0 ELSE 1
FinalSends(t) == IF t.kind = "final" THEN 1 ELSE 0

\* ---------------------------------------------------------------- actions
\* queryBuildingWorkflow was called and is suspended in its first
\* sendMessages call.
\* The result pipeline has no result to work on.
NoResult == [keys |-> <<>>, records |-> <<>>]
NoFormatted == [columns |-> <<>>, rows |-> <<>>]
NoSparql == [vars |-> <<>>, bindings |-> <<>>]

NormalizerIdle ==
  /\ nzPc = "idle"
  /\ raw = NoResult
  /\ formatted = NoFormatted
  /\ sparql = NoSparql

WorkflowInit ==
  /\ pc = "awaitInitial"
  /\ NO_FOREVER_LOOP = 0
  /\ llmResponse = NoReply
  /\ handler = "none"
  /\ searchArg = <<>>
  /\ query = NoQuery
  /\ sent = InitialTurn
  /\ driver \in BOOLEAN
  /\ result = NoReply
  /\ delivered = NoReply
  /\ fault = NoFault
  /\ chatFaults = 0
  /\ loopChats = 0
  /\ finalSent = 0
  /\ exitBy = "none"
  /\ inFlight = 0
  /\ runQueryPc = "idle"
  /\ settled = NoSettled
  /\ sessions = 0

EmptyGraph == [nodes |-> <<>>, edges |-> <<>>]

ParserIdle == calls = <<>> /\ graphData = EmptyGraph

NoResults == [data |-> "null", error |-> "null", summary |-> "null"]

\* initialState of the neo4jConnection slice; details stands for uri,
\* username and database.
initialState ==
  [details |-> "", connected |-> FALSE, isConnecting |-> FALSE,
   error |-> "null"]

NoUpload ==
  [pc |-> "idle", totalChunks |-> 0, chunkIndex |-> 0, onProgress |-> FALSE,
   posts |-> 0, progress |-> -1, extractions |-> 0]

\* No mutation was started, the connection form was not used, no upload was
\* started and the table was mounted on an empty query.
FormsIdle ==
  /\ queries = <<>>
  /\ runs = <<>>
  /\ connection = initialState
  /\ thunks = <<>>
  /\ drivers = (IF driver THEN 1 ELSE 0)
  /\ upload = NoUpload
  /\ idTable = [query |-> <<>>, isConnected |-> FALSE, nodeProperties |-> <<>>]

RunQueryIdle ==
  /\ mutation = "idle"
  /\ results = NoResults
  /\ summaryPc = "idle"
  /\ chatLog = <<>>
  /\ FormsIdle

Init == WorkflowInit /\ NormalizerIdle /\ ParserIdle /\ RunQueryIdle

\* A sendMessages call of the loop (or the initial one) returns reply r: the
\* reply is assigned to llmResponse and the loop runs to its next await.
ReceiveReply(r, rs) ==
  /\ pc \in {"awaitInitial", "awaitTrySend", "awaitSend"}
  /\ r \in rs
  /\ \E it \in {Iterate(r, NO_FOREVER_LOOP, driver)} :
       /\ llmResponse' = r
       /\ delivered' = r
       /\ pc' = it.pc
       /\ NO_FOREVER_LOOP' = it.loops
       /\ handler' = it.handler
       /\ searchArg' = it.searchArg
       /\ query' = it.query
       /\ sent' = IF it.turn = NoTurn THEN sent ELSE it.turn
       /\ fault' = it.fault
       /\ exitBy' = it.exitBy
       /\ loopChats' = loopChats + LoopSends(it.turn)
       /\ finalSent' = finalSent + FinalSends(it.turn)
       /\ inFlight' = inFlight + (IF it.pc = "awaitStore" THEN 1 ELSE 0)
       /\ sessions' = IF it.pc = "awaitStore" THEN GetSession(sessions)
                       ELSE sessions
       /\ runQueryPc' = IF it.pc = "awaitStore" THEN "run" ELSE "idle"
  /\ UNCHANGED <<driver, result, chatFaults, settled>>
  /\ UNCHANGED notWfVars

ChatReply == \E r \in Replies : ReceiveReply(r, Replies)

\* The final sendMessages call returns: its reply is the workflow's result.
FinalReply ==
  /\ pc = "awaitFinal"
  /\ \E r \in Replies :
       /\ result' = ReturnValue(r, llmResponse)
       /\ delivered' = r
  /\ pc' = "done"
  /\ UNCHANGED <<NO_FOREVER_LOOP, llmResponse, handler, searchArg, query,
                 sent, driver, fault, chatFaults, loopChats, finalSent,
                 exitBy, inFlight,
                 runQueryPc, settled, sessions>>
  /\ UNCHANGED notWfVars

\* A sendMessages call outside every try block fails: the rejection leaves
\* queryBuildingWorkflow.
ChatFail ==
  /\ pc \in {"awaitInitial", "awaitSend", "awaitFinal"}
  /\ chatFaults < MaxChatFaults
  /\ \E msg \in ChatErrors : fault' = ChatError(msg)
  /\ chatFaults' = chatFaults + 1
  /\ pc' = "failed"
  /\ UNCHANGED <<NO_FOREVER_LOOP, llmResponse, handler, searchArg, query,
                 sent, driver, result, delivered, loopChats, finalSent,
                 exitBy, inFlight,
                 runQueryPc, settled, sessions>>
  /\ UNCHANGED notWfVars

\* The sendMessages call inside a handler's try block fails: the handler's
\* catch block takes the error and sends the error turn.
ChatFailInTry ==
  /\ pc = "awaitTrySend"
  /\ chatFaults < MaxChatFaults
  /\ \E msg \in ChatErrors :
       /\ fault' = ChatError(msg)
       /\ sent' = ErrorTurn(handler, msg)
  /\ chatFaults' = chatFaults + 1
  /\ pc' = "awaitSend"
  /\ loopChats' = loopChats + 1
  /\ UNCHANGED <<NO_FOREVER_LOOP, llmResponse, handler, searchArg, query,
                 driver, result, delivered, finalSent, exitBy, inFlight,
                 runQueryPc, settled, sessions>>
  /\ UNCHANGED notWfVars

\* session.run settles, with a result of no record or of some, or with the
\* store's rejection: runQuery goes on to its finally block and awaits
\* session.close.
SessionRunSettles ==
  /\ pc = "awaitStore"
  /\ runQueryPc = "run"
  /\ \/ \E empty \in BOOLEAN :
          settled' = [kind |-> "result", empty |-> empty, msg |-> ""]
     \/ \E msg \in StoreErrors :
          settled' = [kind |-> "error", empty |-> FALSE, msg |-> msg]
  /\ runQueryPc' = "close"
  /\ UNCHANGED <<pc, NO_FOREVER_LOOP, llmResponse, handler, searchArg, query,
                 sent, driver, result, delivered, fault, chatFaults,
                 loopChats, finalSent, exitBy, inFlight, sessions>>
  /\ UNCHANGED notWfVars

StoreReturnSilent ==
  /\ pc = "awaitStore"
  /\ runQueryPc = "close"
  /\ settled.kind = "result"
  /\ pc' = "awaitTrySend"
  /\ inFlight' = inFlight - 1
  /\ sessions' = CloseSession(sessions, settled.kind)
  /\ runQueryPc' = "idle"
  /\ settled' = NoSettled
  /\ UNCHANGED <<NO_FOREVER_LOOP, llmResponse, handler, searchArg, query,
                 sent, driver, result, delivered, fault, chatFaults,
                 loopChats, finalSent, exitBy>>
  /\ UNCHANGED notWfVars

\* session.close completes after a result: runQuery and runCypherQuery
\* return it and the handler sends the result turn from inside its try block.
StoreReturn ==
  /\ pc = "awaitStore"
  /\ runQueryPc = "close"
  /\ settled.kind = "result"
  /\ sent' = ResultTurn(handler, settled.empty)
  /\ sessions' = CloseSession(sessions, settled.kind)
  /\ runQueryPc' = "idle"
  /\ settled' = NoSettled
  /\ pc' = "awaitTrySend"
  /\ loopChats' = loopChats + 1
  /\ UNCHANGED <<NO_FOREVER_LOOP, llmResponse, handler, searchArg, query,
                 driver, result, delivered, fault, chatFaults, finalSent,
                 exitBy>>
  /\ inFlight' = inFlight - 1
  /\ UNCHANGED notWfVars

\* session.close completes after a rejection: runQuery rejects,
\* runCypherQuery rethrows and the handler's catch block sends the error turn.
StoreFail ==
  /\ pc = "awaitStore"
  /\ runQueryPc = "close"
  /\ settled.kind = "error"
  /\ fault' = Rethrow(StoreError(settled.msg))
  /\ sent' = ErrorTurn(handler, fault'.msg)
  /\ sessions' = CloseSession(sessions, settled.kind)
  /\ runQueryPc' = "idle"
  /\ settled' = NoSettled
  /\ pc' = "awaitSend"
  /\ loopChats' = loopChats + 1
  /\ UNCHANGED <<NO_FOREVER_LOOP, llmResponse, handler, searchArg, query,
                 driver, result, delivered, chatFaults, finalSent, exitBy>>
  /\ inFlight' = inFlight - 1
  /\ UNCHANGED notWfVars

\* Neo4jConnection.connect / close, called from the connection form.
Connect ==
  /\ driver' = TRUE
  /\ driver = FALSE
  /\ drivers' = drivers + 1
  /\ UNCHANGED <<pc, NO_FOREVER_LOOP, llmResponse, handler, searchArg, query,
                 sent, result, delivered, fault, chatFaults, loopChats,
                 finalSent, exitBy, inFlight,
                 runQueryPc, settled, sessions>>
  /\ UNCHANGED notDriverVars

Close ==
  /\ driver = TRUE
  /\ driver' = FALSE
  /\ drivers' = drivers - 1
  /\ UNCHANGED <<pc, NO_FOREVER_LOOP, llmResponse, handler, searchArg, query,
                 sent, result, delivered, fault, chatFaults, loopChats,
                 finalSent, exitBy, inFlight,
                 runQueryPc, settled, sessions>>
  /\ UNCHANGED notDriverVars

\* The initial sendMessages call returns, with any text of at most MaxLen
\* lexemes.
FirstReply ==
  /\ pc = "awaitInitial"
  /\ \E r \in Texts(MaxLen) : ReceiveReply(r, Texts(MaxLen))

Workflow ==
  ChatReply \/ FinalReply \/ ChatFail \/ ChatFailInTry \/ SessionRunSettles
    \/ StoreReturn \/ StoreFail

Next == Workflow \/ Connect \/ Close

Spec == Init /\ [][Next]_vars

\* Every chat call and every store call completes.
SpecLive == Spec /\ WF_vars(Workflow)

\* The workflow with the first reply ranging over all texts.
NextFirstReply == FirstReply \/ Next

SpecFirstReply == Init /\ [][NextFirstReply]_vars

\* ------------------------------------------------------------- properties
\* What the properties say about a reply, stated on the lexemes themselves.
StopForms == {"STOP", "stop", "Stop"}

IsStopReply(r) ==
  \E i \in 1..Len(r) :
    r[i] \in StopForms /\ \A j \in (1..Len(r)) \ {i} : r[j] = SP

Has(r, m) == m \in {r[i] : i \in 1..Len(r)}

LeadsWith(r, m) ==
  \E i \in 1..Len(r) : r[i] = m /\ \A j \in 1..(i - 1) : r[j] = SP

AfterFirst(r, m) ==
  LET i == CHOOSE k \in 1..Len(r) : r[k] = m /\ \A j \in 1..(k - 1) : r[j] # m
  IN SubSeq(r, i + 1, Len(r))

IsWord(t) == \A i \in 1..Len(t) : t[i] \in WordChars

\* The iteration that classified llmResponse is still running.
InLoop == pc \in {"awaitStore", "awaitTrySend", "awaitSend"}

\* C1: the loop executes at most 20 iterations, whatever the replies and the
\* store errors are, and a loop that ran out of iterations has executed
\* exactly 20 and has sent the final-query turn.
C1_AtMostTwentyIterations ==
  /\ NO_FOREVER_LOOP <= 20
  /\ exitBy = "ceiling" => NO_FOREVER_LOOP = 20 /\ sent = FinalTurn

C1_Witness ==
  /\ pc = "awaitFinal"
  /\ exitBy = "ceiling"
  /\ NO_FOREVER_LOOP = 20
  /\ ~IsStopReply(llmResponse)

\* C2 (as claimed): between the initial turn and the final-query turn at most
\* 20 sendMessages calls are made, whatever errors occur inside a handler.
C2_AtMostTwentyRoundTrips == loopChats <= 20

\* C3: when every call completes the workflow ends; it ends in failure only
\* when a chat call failed; and when it returns it has sent the final-query
\* turn exactly once, as its last chat call, after the loop ended by Stop or
\* by the ceiling, and returns the reply to that turn.
C3_EndsWithFinalTurn ==
  /\ <>(pc \in {"done", "failed"})
  /\ [](pc = "failed" => chatFaults > 0)
  /\ [](finalSent <= 1)
  /\ [](finalSent = 1 => exitBy \in {"stop", "ceiling"})
  /\ [](pc = "done" =>
          /\ finalSent = 1
          /\ sent = FinalTurn
          /\ result = delivered)

C3_Witness ==
  /\ pc = "done"
  /\ finalSent = 1
  /\ exitBy = "ceiling"
  /\ result # llmResponse

\* C4 (as claimed): a store query of the related-entities search carries a
\* relationship type made of letters, digits and underscores only.
C4_RelationshipTypeIsWord ==
  (pc = "awaitStore" /\ query.template = "tail")
    => IsWord(query.relationshipType)

\* C5 (as claimed): once a chat call has failed the workflow has ended in
\* failure: it is suspended in no further chat or store call.
C5_ChatFailurePropagates == chatFaults > 0 => pc = "failed"

\* C6: a failed store query makes the handler send exactly one turn that
\* carries the error's message and wait for the model's reply to it, and the
\* workflow still reaches the final-query turn unless it dies of a failed
\* chat call.
C6_StoreFailureFedBack ==
  /\ [](fault.src = "store" =>
          /\ pc = "awaitSend"
          /\ sent.kind = "error"
          /\ sent.detail = fault.msg
          /\ sent.stage = Stage(handler))
  /\ [][(fault'.src = "store"
           /\ (pc = "awaitStore" \/ NO_FOREVER_LOOP' # NO_FOREVER_LOOP))
          => loopChats' = loopChats + 1]_vars
  /\ (fault.src = "store" ~> (finalSent = 1 \/ pc = "failed"))

C6_Witness ==
  /\ fault.src = "store"
  /\ fault.msg = "query rejected"
  /\ pc = "awaitSend"
  /\ handler = "properties"

\* C7: a reply that is STOP in any letter case, surrounded by whitespace only,
\* ends the loop: no store query and no corrective turn follows it, the turn
\* sent for it is the final-query turn.
C7_StopEndsLoop ==
  IsStopReply(llmResponse) =>
    /\ pc \in {"awaitFinal", "done", "failed"}
    /\ sent = FinalTurn
    /\ handler = "none"

C7_Witness ==
  /\ llmResponse = <<SP, "Stop", SP>>
  /\ pc = "awaitFinal"
  /\ exitBy = "stop"

\* C8: a classified reply that is not Stop and contains the entity marker
\* runs the entity search, whatever other markers it has; one without the
\* entity marker that contains the properties marker runs the properties
\* search, also when it starts with the tail marker.
C8_MarkerPriority ==
  (InLoop /\ ~IsStopReply(llmResponse)) =>
    /\ Has(llmResponse, ENTITY_SEARCH_PREFIX) => handler = "entity"
    /\ (~Has(llmResponse, ENTITY_SEARCH_PREFIX)
          /\ Has(llmResponse, PROPERTIES_SEARCH_PREFIX))
         => handler = "properties"

C8_Witness ==
  /\ llmResponse =
       <<TAIL_SEARCH_PREFIX, PROPERTIES_SEARCH_PREFIX, ENTITY_SEARCH_PREFIX>>
  /\ handler = "entity"
  /\ pc = "awaitStore"

\* C9: a classified reply with the tail marker somewhere but not leading the
\* trimmed text, and with no other marker, gets the corrective turn and no
\* store query; the related-entities search runs only for replies whose
\* trimmed text starts with the tail marker.
C9_TailMustLead ==
  InLoop =>
    /\ (/\ Has(llmResponse, TAIL_SEARCH_PREFIX)
        /\ ~LeadsWith(llmResponse, TAIL_SEARCH_PREFIX)
        /\ ~Has(llmResponse, ENTITY_SEARCH_PREFIX)
        /\ ~Has(llmResponse, PROPERTIES_SEARCH_PREFIX))
       => (handler = "none" /\ sent = InvalidTurn /\ pc = "awaitSend")
    /\ handler = "tail" => LeadsWith(llmResponse, TAIL_SEARCH_PREFIX)

C9_Witness ==
  /\ llmResponse = <<"a", TAIL_SEARCH_PREFIX, "a">>
  /\ sent = InvalidTurn
  /\ pc = "awaitSend"

\* C10 (as claimed): the payload of an entity or properties search is the
\* whole text after the first occurrence of the marker, trimmed.
C10_PayloadIsRestOfReply ==
  /\ (InLoop /\ handler = "entity")
       => searchArg = Trim(AfterFirst(llmResponse, ENTITY_SEARCH_PREFIX))
  /\ (InLoop /\ handler = "properties")
       => searchArg = Trim(AfterFirst(llmResponse, PROPERTIES_SEARCH_PREFIX))


\* Number of commas of a reply, and the two fields around the only comma of
\* a reply that leads with the tail marker, without surrounding whitespace.
Commas(r) == Cardinality({i \in 1..Len(r) : r[i] = COMMA})

Strip(t) ==
  LET keep == {i \in 1..Len(t) : t[i] # SP} IN
  IF keep = {} THEN <<>>
  ELSE SubSeq(t, CHOOSE i \in keep : \A j \in keep : i <= j,
              CHOOSE i \in keep : \A j \in keep : i >= j)

FieldBeforeComma(r) ==
  LET m == CHOOSE i \in 1..Len(r) :
             r[i] = TAIL_SEARCH_PREFIX /\ \A j \in 1..(i - 1) : r[j] = SP
      c == CHOOSE i \in 1..Len(r) : r[i] = COMMA
  IN Strip(SubSeq(r, m + 1, c - 1))

FieldAfterComma(r) ==
  LET c == CHOOSE i \in 1..Len(r) : r[i] = COMMA
  IN Strip(SubSeq(r, c + 1, Len(r)))

\* C11: a tail search whose payload does not have exactly one comma gets the
\* format-error turn and waits for the reply to it, with no store query and
\* no error; with exactly one comma the query's entity id and relationship
\* type are the two fields around the comma, trimmed.
C11_TailCommaCount ==
  (InLoop /\ handler = "tail") =>
    /\ Commas(llmResponse) # 1 =>
         /\ pc = "awaitSend"
         /\ sent = FormatTurn
         /\ query = NoQuery
         /\ fault = NoFault
         /\ inFlight = 0
    /\ (Commas(llmResponse) = 1 /\ query # NoQuery) =>
         /\ query.param = FieldBeforeComma(llmResponse)
         /\ query.relationshipType = FieldAfterComma(llmResponse)

C11_Witness ==
  /\ llmResponse = <<TAIL_SEARCH_PREFIX, COMMA, COMMA>>
  /\ handler = "tail"
  /\ sent = FormatTurn
  /\ pc = "awaitSend"

\* C12 (as claimed): a store query of the related-entities search has a
\* non-empty entity id and a non-empty relationship type.
C12_TailFieldsNonEmpty ==
  query.template = "tail" =>
    query.param # <<>> /\ query.relationshipType # <<>>

\* What makes a reply invalid, stated on its lexemes.
IsInvalidReply(r) ==
  /\ ~IsStopReply(r)
  /\ ~Has(r, ENTITY_SEARCH_PREFIX)
  /\ ~Has(r, PROPERTIES_SEARCH_PREFIX)
  /\ ~LeadsWith(r, TAIL_SEARCH_PREFIX)

\* C13: a classified invalid reply raises nothing and issues no store query:
\* exactly one turn is sent for it, the corrective one, whose content holds
\* the initial instruction message verbatim, and the loop goes on with the
\* reply to that turn.
C13_InvalidIsCorrected ==
  /\ []((InLoop /\ IsInvalidReply(llmResponse)) =>
          /\ pc = "awaitSend"
          /\ sent.kind = "invalid"
          /\ \E i \in 1..Len(sent.content) :
               sent.content[i] = InitialTurn.content[1]
          /\ query = NoQuery
          /\ inFlight = 0
          /\ fault = NoFault)
  /\ [][(IsInvalidReply(llmResponse') /\ NO_FOREVER_LOOP' # NO_FOREVER_LOOP)
          => loopChats' = loopChats + 1]_vars
  /\ [][(/\ InLoop
          /\ IsInvalidReply(llmResponse)
          /\ (pc' # pc \/ NO_FOREVER_LOOP' # NO_FOREVER_LOOP)
          /\ pc' # "failed")
          => (llmResponse' = delivered'
              /\ (NO_FOREVER_LOOP' = NO_FOREVER_LOOP + 1
                  \/ pc' = "awaitFinal"))]_vars

C13_Witness ==
  /\ llmResponse = <<"a", COMMA>>
  /\ sent.kind = "invalid"
  /\ pc = "awaitSend"
  /\ NO_FOREVER_LOOP = 1

\* C14: the text of an entity or properties query is the fixed text of its
\* template, the same for every reply; the payload is the query's parameter
\* and no part of the text.
C14_FixedQueryText ==
  /\ query.template = "entity" =>
       (query.text = ENTITY_QUERY /\ query.param = searchArg)
  /\ query.template = "properties" =>
       (query.text = PROPERTIES_QUERY /\ query.param = searchArg)
  /\ (pc = "awaitStore" /\ handler \in {"entity", "properties"}) =>
       query.template = handler

C14_Witness ==
  /\ pc = "awaitStore"
  /\ handler = "entity"
  /\ query.param = <<"]", "a">>

\* C15: at most one store query is in flight; the step that ends a store
\* query sends the result or error turn of the same iteration, and a store
\* query is only issued by the step that received and classified a reply.
C15_OneQueryThenItsTurn ==
  /\ [](inFlight <= 1)
  /\ [](inFlight = 1 <=> pc = "awaitStore")
  /\ [][(pc = "awaitStore" /\ pc' # "awaitStore") =>
          /\ pc' \in {"awaitTrySend", "awaitSend"}
          /\ loopChats' = loopChats + 1
          /\ sent'.kind \in {"noMatch", "found", "error"}
          /\ sent'.stage = Stage(handler)
          /\ NO_FOREVER_LOOP' = NO_FOREVER_LOOP
          /\ llmResponse' = llmResponse]_vars
  /\ [][(pc' = "awaitStore" /\ pc # "awaitStore") =>
          /\ pc \in {"awaitInitial", "awaitTrySend", "awaitSend"}
          /\ llmResponse' = delivered'
          /\ NO_FOREVER_LOOP' = NO_FOREVER_LOOP + 1]_vars

C15_Witness ==
  /\ pc = "awaitStore"
  /\ inFlight = 1
  /\ NO_FOREVER_LOOP = 2
  /\ sent.kind = "found"

\* C16: a search the loop dispatches while the connection holds no driver
\* fails with the not-connected error and nothing else, and no query reaches
\* the store.
C16_NotConnectedOnly ==
  [][(/\ ~driver
      /\ NO_FOREVER_LOOP' = NO_FOREVER_LOOP + 1
      /\ handler' \in {"entity", "properties", "tail"}
      /\ sent'.kind # "format")
     => (/\ fault' = NotConnectedError
         /\ pc' = "awaitSend"
         /\ sent'.detail = NOT_CONNECTED
         /\ query' = NoQuery
         /\ inFlight' = 0)]_vars

C16_Witness ==
  /\ fault = NotConnectedError
  /\ handler = "properties"
  /\ pc = "awaitSend"
  /\ inFlight = 0

\* C17 (as claimed): the error a failed store query leaves runCypherQuery
\* with is the executor's own error value, never the store's exception.
C17_StoreErrorIsWrapped == fault.src = "store" => fault.class = "Error"


\* ------------------------------------------------------- result pipeline
\* runCypherQuery -> formatCypherResult -> convertToSparqlResultsFormat, as
\* the run-query mutation chains them.
\*
\* A cell value is a JavaScript value: its kind (tag), the own properties an
\* object has with the truthiness of each, its String(...) form and its
\* JSON.stringify(...) form ("TypeError" when JSON.stringify throws).
JsValue(tag, props, str, json) ==
  [tag |-> tag, props |-> props, str |-> str, json |-> json]

Prop(key, truthy) == [key |-> key, truthy |-> truthy]

NullValue == JsValue("null", {}, "null", "null")
UndefinedValue == JsValue("undefined", {}, "undefined", "undefined")
StringX == JsValue("string", {}, "x", "\"x\"")
ObjectLabels ==
  JsValue("object", {Prop("labels", TRUE)}, "[object Object]",
          "{\"labels\":[\"Person\"]}")

JsValues ==
  {NullValue, UndefinedValue, StringX, ObjectLabels,
   JsValue("string", {}, "", "\"\""),
   JsValue("number", {}, "0", "0"),
   JsValue("number", {}, "1", "1"),
   JsValue("boolean", {}, "true", "true"),
   JsValue("boolean", {}, "false", "false"),
   JsValue("bigint", {}, "10", "TypeError"),
   JsValue("function", {}, "function () {}", "undefined"),
   JsValue("symbol", {}, "Symbol()", "undefined"),
   JsValue("array", {}, "", "[]"),
   JsValue("object", {}, "[object Object]", "{}"),
   JsValue("object", {Prop("x", TRUE)}, "[object Object]", "{\"x\":1}"),
   JsValue("object", {Prop("_labels", TRUE)}, "[object Object]", "{\"_labels\":[\"Person\"]}"),
   JsValue("object", {Prop("_id", FALSE)}, "[object Object]", "{\"_id\":0}"),
   JsValue("object", {Prop("_id", TRUE)}, "[object Object]", "{\"_id\":7}"),
   JsValue("object", {Prop("_type", FALSE)}, "[object Object]", "{\"_type\":\"\"}"),
   JsValue("object", {Prop("_type", TRUE)}, "[object Object]", "{\"_type\":\"KNOWS\"}"),
   JsValue("object", {Prop("n", TRUE)}, "[object Object]", "TypeError")}

\* The cells of the results that vary in shape.
ShapeCells == {NullValue, StringX, ObjectLabels}

ColumnNames == {"a", "b", "c"}

\* The projections: sequences of distinct column names.
KeySeqs ==
  {k \in UNION {[1..n -> ColumnNames] : n \in 0..MaxCols} :
     \A i, j \in 1..Len(k) : k[i] = k[j] => i = j}

RowsOver(k, cells, n) == [1..n -> [1..Len(k) -> cells]]

\* The number of rows a result of projection k can have: a result without
\* columns has no rows.
RowCounts(k) == 0..(IF k = <<>> THEN 0 ELSE MaxRows)

\* The store result has one of the shapes of at most MaxCols columns and
\* MaxRows rows over ShapeCells.
IsShapeResult(storeResult) ==
  \E k \in KeySeqs : \E n \in RowCounts(k) :
    \E rs \in RowsOver(k, ShapeCells, n) :
      storeResult = [keys |-> k, records |-> rs]

\* The store result has one cell, any JavaScript value.
IsCellResult(storeResult) ==
  \E v \in JsValues : storeResult = [keys |-> <<"a">>, records |-> <<<<v>>>>]

\* typeof value
TypeOf(value) ==
  IF value.tag \in {"null", "array", "object"} THEN "object" ELSE value.tag

\* value === null || value === undefined
IsNullish(value) == value.tag \in {"null", "undefined"}

\* value[key] is truthy
Truthy(value, key) == \E p \in value.props : p.key = key /\ p.truthy

\* runCypherQuery's return value: the records of the store result, each with
\* the keys of the projection.
CypherResult(storeResult) ==
  [records |->
     [i \in 1..Len(storeResult.records) |->
        [keys |-> storeResult.keys, values |-> storeResult.records[i]]]]

\* Record.get(column)
RecordGet(record, column) == record.values[IndexOf(record.keys, column)]

FormatCypherResult(cypherResult) ==
  IF Len(cypherResult.records) = 0
  THEN [columns |-> <<>>, rows |-> <<>>]
  ELSE
    LET columns == cypherResult.records[1].keys IN
    [columns |-> columns,
     rows |->
       [r \in 1..Len(cypherResult.records) |->
          [c \in 1..Len(columns) |->
             RecordGet(cypherResult.records[r], columns[c])]]]

\* row[index]
CellAt(row, index) == IF index <= Len(row) THEN row[index] ELSE UndefinedValue

BindingType(value) ==
  IF IsNullish(value) THEN "unknown"
  ELSE IF TypeOf(value) = "object"
  THEN IF Truthy(value, "_labels") \/ Truthy(value, "_id")
            \/ Truthy(value, "_type")
       THEN "uri" ELSE "object"
  ELSE TypeOf(value)

\* isNeo4jEntity(value): a string that looks like an entity id (of the
\* strings among the cell values "x" matches /^[a-zA-Z0-9_-]+$/ and "" does
\* not), or an object that has one of the three keys, whatever its value.
IsNeo4jEntity(value) ==
  IF TypeOf(value) = "string" THEN value.str # ""
  ELSE IF TypeOf(value) = "object" /\ value.tag # "null"
  THEN \E p \in value.props : p.key \in {"_labels", "_id", "_type"}
  ELSE FALSE

FormattedValue(value) ==
  IF IsNullish(value) THEN ""
  ELSE IF TypeOf(value) = "object" THEN value.json
  ELSE value.str

\* JSON.stringify(value) throws for this cell.
CellRaises(value) ==
  ~IsNullish(value) /\ TypeOf(value) = "object" /\ value.json = "TypeError"

\* A binding object that has an entry only for the cells the row holds.
RowBindingPresentOnly(columns, row) ==
  [column \in {columns[i] : i \in 1..Len(columns) \cap 1..Len(row)} |->
     LET index == CHOOSE i \in 1..Len(columns) : columns[i] = column
         value == row[index]
     IN [type |-> BindingType(value), value |-> FormattedValue(value)]]

\* The binding object of one row: forEach assigns binding[column] in column
\* order, so the last column of a name decides.
RowBinding(columns, row) ==
  [column \in {columns[i] : i \in 1..Len(columns)} |->
     LET index == CHOOSE i \in 1..Len(columns) :
                    columns[i] = column
                    /\ \A j \in (i + 1)..Len(columns) : columns[j] # column
         value == CellAt(row, index)
     IN [type |-> BindingType(value), value |-> FormattedValue(value)]]

ConvertRaises(formattedResult) ==
  \E r \in 1..Len(formattedResult.rows) :
    \E i \in 1..Len(formattedResult.columns) :
      CellRaises(CellAt(formattedResult.rows[r], i))

ConvertToSparqlResultsFormat(formattedResult) ==
  [vars |-> formattedResult.columns,
   bindings |->
     [r \in 1..Len(formattedResult.rows) |->
        RowBinding(formattedResult.columns, formattedResult.rows[r])]]

\* The store answered a query of the run-query mutation.
InitNormalize ==
  /\ WorkflowInit
  /\ driver = TRUE
  /\ nzPc = "input"
  /\ (IsShapeResult(raw) \/ IsCellResult(raw))
  /\ formatted = NoFormatted
  /\ sparql = NoSparql
  /\ ParserIdle
  /\ RunQueryIdle

Format ==
  /\ nzPc = "input"
  /\ formatted' = FormatCypherResult(CypherResult(raw))
  /\ nzPc' = "formatted"
  /\ UNCHANGED <<raw, sparql>>
  /\ UNCHANGED notNzVars

Convert ==
  /\ nzPc = "formatted"
  /\ ~ConvertRaises(formatted)
  /\ sparql' = ConvertToSparqlResultsFormat(formatted)
  /\ nzPc' = "converted"
  /\ UNCHANGED <<raw, formatted>>
  /\ UNCHANGED notNzVars

\* JSON.stringify throws inside convertToSparqlResultsFormat.
ConvertThrows ==
  /\ nzPc = "formatted"
  /\ ConvertRaises(formatted)
  /\ nzPc' = "raised"
  /\ UNCHANGED <<raw, formatted, sparql>>
  /\ UNCHANGED notNzVars

NextNormalize == Format \/ Convert \/ ConvertThrows

SpecNormalize == InitNormalize /\ [][NextNormalize]_vars

\* The cells of the formatted result, by row and column position.
Cells ==
  {[r |-> r, c |-> c] :
     r \in 1..Len(formatted.rows), c \in 1..Len(formatted.columns)}

\* C18 (as claimed): the formatted result has the columns of the projection
\* in their order, whatever the number of rows, and one cell per column in
\* every row, in column order.
C18_ColumnsOfProjection ==
  nzPc \in {"formatted", "converted", "raised"} =>
    /\ formatted.columns = raw.keys
    /\ Len(formatted.rows) = Len(raw.records)
    /\ \A r \in 1..Len(formatted.rows) : formatted.rows[r] = raw.records[r]

\* An object that carries a graph-entity marker: a label set, an internal id
\* or a relationship type, whatever its value.
CarriesMarker(value) ==
  \E p \in value.props : p.key \in {"labels", "_labels", "_id", "_type"}

\* C19 (as claimed): null or absent gives unknown and ""; an object with a
\* graph-entity marker gives uri and its JSON form; any other object gives
\* object and its JSON form; a primitive gives its kind and its string form.
C19_CellMapping ==
  nzPc = "converted" =>
    \A x \in Cells :
      LET value == formatted.rows[x.r][x.c]
          b == sparql.bindings[x.r][formatted.columns[x.c]]
      IN /\ IsNullish(value) => b = [type |-> "unknown", value |-> ""]
         /\ (~IsNullish(value) /\ TypeOf(value) = "object")
              => /\ b.value = value.json
                 /\ b.type = IF CarriesMarker(value) THEN "uri" ELSE "object"
         /\ (~IsNullish(value) /\ TypeOf(value) # "object")
              => b = [type |-> value.tag, value |-> value.str]

BindingTypes == {"uri", "string", "number", "boolean", "object", "unknown"}

\* C20 (as claimed): the conversion never raises, and every cell gets one
\* binding whose type is one of the six binding types.
C20_Total ==
  /\ nzPc # "raised"
  /\ nzPc = "converted" =>
       \A x \in Cells :
         sparql.bindings[x.r][formatted.columns[x.c]].type \in BindingTypes

\* ---------------------------------- convertToSparqlResultsFormat by itself
\* The cells of the rows that may be shorter than the column list.
RaggedCells == {NullValue, StringX}

\* The rows over projection k that hold at most one cell per column.
RaggedRows(k) == UNION {[1..m -> RaggedCells] : m \in 0..Len(k)}

\* A caller hands convertToSparqlResultsFormat a formatted result: unique
\* column names, rows of at most one cell per column, or one cell of any
\* JavaScript value.
IsFormattedInput(formattedResult) ==
  \/ \E k \in KeySeqs : \E n \in RowCounts(k) :
       \E rs \in [1..n -> RaggedRows(k)] :
         formattedResult = [columns |-> k, rows |-> rs]
  \/ \E v \in JsValues :
       formattedResult = [columns |-> <<"a">>, rows |-> <<<<v>>>>]

InitConvert ==
  /\ WorkflowInit
  /\ driver = TRUE
  /\ nzPc = "formatted"
  /\ raw = NoResult
  /\ IsFormattedInput(formatted)
  /\ sparql = NoSparql
  /\ ParserIdle
  /\ RunQueryIdle

NextConvert == Convert \/ ConvertThrows

SpecConvert == InitConvert /\ [][NextConvert]_vars

\* C21: for a formatted result with unique column names the conversion
\* returns the columns, unchanged and in order, as the variable list and one
\* binding row per row in row order; every binding row has one binding for
\* every column and no other entry, the binding of a cell the row holds is
\* that cell's, and the binding of a cell the row lacks is unknown with "".
C21_OneBindingPerColumn ==
  nzPc = "converted" =>
    /\ sparql.vars = formatted.columns
    /\ Len(sparql.bindings) = Len(formatted.rows)
    /\ \A r \in 1..Len(formatted.rows) :
         /\ DOMAIN sparql.bindings[r]
              = {formatted.columns[i] : i \in 1..Len(formatted.columns)}
         /\ \A i \in 1..Len(formatted.columns) :
              LET b == sparql.bindings[r][formatted.columns[i]] IN
              IF i <= Len(formatted.rows[r])
              THEN b = [type |-> BindingType(formatted.rows[r][i]),
                        value |-> FormattedValue(formatted.rows[r][i])]
              ELSE b = [type |-> "unknown", value |-> ""]

C21_Witness ==
  /\ nzPc = "converted"
  /\ formatted.columns = <<"b", "a">>
  /\ formatted.rows = <<<<StringX>>, <<NullValue, StringX>>>>
  /\ sparql.bindings[1]["a"] = [type |-> "unknown", value |-> ""]
  /\ sparql.bindings[2]["a"] = [type |-> "string", value |-> "x"]

CypherWordChars ==
  {"a", "b", "c", "r", "k", "v", "Person", "KNOWS", "X", "Y"}

\* \s
WhiteSpace == {SP, "\n"}

\* The character at position i of s, "" past either end.
At(s, i) == IF i \in 1..Len(s) THEN s[i] ELSE ""

\* The position after the longest run of characters of set cs that starts at
\* position i of s: what a greedy cs* or cs+ consumes there.
RECURSIVE RunEnd(_, _, _)
RunEnd(s, i, cs) == IF At(s, i) \in cs THEN RunEnd(s, i + 1, cs) ELSE i

\* The position of the first occurrence of character c at or after position
\* i of s, 0 when there is none.
RECURSIVE Find(_, _, _)
Find(s, i, c) ==
  IF i > Len(s) THEN 0 ELSE IF s[i] = c THEN i ELSE Find(s, i + 1, c)

\* .replace(/\s+/g, ' ')
RECURSIVE CollapseWhitespace(_)
CollapseWhitespace(s) ==
  IF s = <<>> THEN <<>>
  ELSE IF Head(s) \in WhiteSpace
  THEN <<SP>>
         \o CollapseWhitespace(SubSeq(s, RunEnd(s, 1, WhiteSpace), Len(s)))
  ELSE <<Head(s)>> \o CollapseWhitespace(Tail(s))

\* The position of the first "//" at or after position i of s, 0 when there
\* is none.
RECURSIVE FindComment(_, _)
FindComment(s, i) ==
  IF i >= Len(s) THEN 0
  ELSE IF s[i] = "/" /\ s[i + 1] = "/" THEN i
  ELSE FindComment(s, i + 1)

\* .replace(/\/\/.*/g, ''): every "//" goes with the rest of its line; "."
\* matches every character but a line terminator.
RECURSIVE RemoveComments(_)
RemoveComments(s) ==
  LET c == FindComment(s, 1)
      e == IF c = 0 THEN 0 ELSE Find(s, c, "\n")
  IN IF c = 0 THEN s
     ELSE IF e = 0 THEN SubSeq(s, 1, c - 1)
     ELSE SubSeq(s, 1, c - 1) \o RemoveComments(SubSeq(s, e, Len(s)))

\* String.prototype.trim
RECURSIVE TrimWhiteSpace(_)
TrimWhiteSpace(s) ==
  IF s = <<>> THEN s
  ELSE IF Head(s) \in WhiteSpace THEN TrimWhiteSpace(Tail(s))
  ELSE IF s[Len(s)] \in WhiteSpace
  THEN TrimWhiteSpace(SubSeq(s, 1, Len(s) - 1))
  ELSE s

NormalizeQuery(cypher) ==
  TrimWhiteSpace(RemoveComments(CollapseWhitespace(cypher)))

NoMatch == [ok |-> FALSE, end |-> 0]

\* (?:\s*\{([^}]*)\})? tried at position i of s: ok with the text between
\* the braces and the position after the closing brace, or no match.
MatchProperties(s, i) ==
  LET open == RunEnd(s, i, WhiteSpace)
      close == Find(s, open + 1, "}")
  IN IF At(s, open) = "{" /\ close # 0
     THEN [ok |-> TRUE, end |-> close + 1,
           part |-> SubSeq(s, open + 1, close - 1)]
     ELSE [ok |-> FALSE, end |-> i, part |-> <<>>]

\* nodePattern tried at position i of s:
\* \(([a-zA-Z0-9_]+)(?::([a-zA-Z0-9_:]+))?(?:\s*\{([^}]*)\})?\)
\* Every quantifier is followed by a character outside its class, so the
\* greedy run is the only one that can match.
MatchNode(s, i) ==
  LET w == RunEnd(s, i + 1, CypherWordChars)
      l == IF At(s, w) = ":"
           THEN RunEnd(s, w + 1, CypherWordChars \cup {":"})
           ELSE w
      hasLabels == l > w + 1
      afterLabels == IF hasLabels THEN l ELSE w
      props == MatchProperties(s, afterLabels)
      withProps == props.ok /\ At(s, props.end) = ")"
      close == IF withProps THEN props.end ELSE afterLabels
  IN IF At(s, i) = "(" /\ w > i + 1 /\ At(s, close) = ")"
     THEN [ok |-> TRUE, end |-> close + 1,
           variable |-> SubSeq(s, i + 1, w - 1),
           labelsPart |-> IF hasLabels THEN SubSeq(s, w + 1, l - 1)
                          ELSE <<>>,
           propertiesPart |-> IF withProps THEN props.part ELSE <<>>]
     ELSE NoMatch

\* \(([a-zA-Z0-9_]+)\) tried at position i of s.
MatchBareNode(s, i) ==
  LET w == RunEnd(s, i + 1, CypherWordChars)
  IN IF At(s, i) = "(" /\ w > i + 1 /\ At(s, w) = ")"
     THEN [ok |-> TRUE, end |-> w + 1, variable |-> SubSeq(s, i + 1, w - 1)]
     ELSE NoMatch

\* -\[(?:([a-zA-Z0-9_]+))?(?::([a-zA-Z0-9_]+))?(?:\s*\{([^}]*)\})?\]->
\* tried at position i of s.
MatchBracket(s, i) ==
  LET v == RunEnd(s, i + 2, CypherWordChars)
      t == IF At(s, v) = ":" THEN RunEnd(s, v + 1, CypherWordChars) ELSE v
      hasType == t > v + 1
      afterType == IF hasType THEN t ELSE v
      props == MatchProperties(s, afterType)
      withProps == props.ok /\ At(s, props.end) = "]"
      close == IF withProps THEN props.end ELSE afterType
  IN IF /\ At(s, i) = "-" /\ At(s, i + 1) = "["
        /\ At(s, close) = "]" /\ At(s, close + 1) = "-"
        /\ At(s, close + 2) = ">"
     THEN [ok |-> TRUE, end |-> close + 3,
           relVar |-> SubSeq(s, i + 2, v - 1),
           relType |-> IF hasType THEN SubSeq(s, v + 1, t - 1) ELSE <<>>,
           propsPart |-> IF withProps THEN props.part ELSE <<>>]
     ELSE NoMatch

\* The literal connector c tried at position i of s.
MatchLiteral(s, i, c) ==
  IF \A j \in 1..Len(c) : At(s, i + j - 1) = c[j]
  THEN [ok |-> TRUE, end |-> i + Len(c), relVar |-> <<>>, relType |-> <<>>,
        propsPart |-> <<>>]
  ELSE NoMatch

\* The alternatives of the connector group, in the order the pattern lists
\* them: the bracket form, then -->, --, -> and -.
Connectors(s, i) ==
  <<MatchBracket(s, i), MatchLiteral(s, i, <<"-", "-", ">">>),
    MatchLiteral(s, i, <<"-", "-">>), MatchLiteral(s, i, <<"-", ">">>),
    MatchLiteral(s, i, <<"-">>)>>

\* relPattern tried at position i of s: the first alternative of the
\* connector after which the target node matches.
MatchRelationship(s, i) ==
  LET Through(source, alt, target) ==
        IF target.ok
        THEN [ok |-> TRUE, end |-> target.end,
              sourceVar |-> source.variable,
              relVar |-> alt.relVar,
              relType |-> alt.relType,
              propsPart |-> alt.propsPart,
              targetVar |-> target.variable]
        ELSE NoMatch
      Try(source, alt) ==
        IF alt.ok THEN Through(source, alt, MatchBareNode(s, alt.end))
        ELSE NoMatch
      First(tried) ==
        IF \A a \in 1..Len(tried) : ~tried[a].ok THEN NoMatch
        ELSE tried[CHOOSE a \in 1..Len(tried) :
                     tried[a].ok /\ \A b \in 1..(a - 1) : ~tried[b].ok]
      Alternatives(source, alts) ==
        First([a \in 1..Len(alts) |-> Try(source, alts[a])])
      From(source) ==
        IF source.ok THEN Alternatives(source, Connectors(s, source.end))
        ELSE NoMatch
  IN From(MatchBareNode(s, i))

\* .filter(Boolean) on an array of strings
RECURSIVE FilterNonEmpty(_)
FilterNonEmpty(parts) ==
  IF parts = <<>> THEN <<>>
  ELSE IF Head(parts) = <<>> THEN FilterNonEmpty(Tail(parts))
  ELSE <<Head(parts)>> \o FilterNonEmpty(Tail(parts))

\* labelsPart ? labelsPart.split(':').filter(Boolean) : []
Labels(labelsPart) ==
  IF labelsPart = <<>> THEN <<>> ELSE FilterNonEmpty(Split(labelsPart, ":"))

\* value.replace(/^["'](.*)["']$/, '$1')
StripQuotes(value) ==
  IF /\ Len(value) >= 2 /\ value[1] = "\"" /\ value[Len(value)] = "\""
     /\ \A i \in 1..Len(value) : value[i] # "\n"
  THEN SubSeq(value, 2, Len(value) - 1)
  ELSE value

\* const [key, value] = pair.split(':').map(s => s.trim()), read through an
\* index that must exist.
DestructureStrict(pair) ==
  LET fields == Split(pair, ":")
  IN [key |-> TrimWhiteSpace(fields[1]),
      hasValue |-> Len(fields) >= 2,
      value |-> IF Len(fields) >= 2 THEN TrimWhiteSpace(fields[2]) ELSE <<>>,
      threw |-> Len(fields) < 2]

\* const [key, value] = pair.split(':').map(s => s.trim()): value is
\* undefined when the pair holds no colon, and nothing is thrown.
Destructure(pair) ==
  LET fields == Split(pair, ":")
  IN [key |-> TrimWhiteSpace(fields[1]),
      hasValue |-> Len(fields) >= 2,
      value |-> IF Len(fields) >= 2 THEN TrimWhiteSpace(fields[2]) ELSE <<>>,
      threw |-> FALSE]

\* properties: undefined
NoProperties == [defined |-> FALSE, entries |-> {}, threw |-> FALSE]

\* The properties object parsed from the text between the braces: the pairs
\* between the commas, each a key and a value around its first colon; a pair
\* with an empty key or value is skipped and a later pair replaces an earlier
\* one of the same key.  Undefined when no pair is kept.
Properties(part) ==
  LET propPairs == IF part = <<>> THEN <<>> ELSE Split(part, COMMA)
      kv == [i \in 1..Len(propPairs) |-> Destructure(propPairs[i])]
      kept == {i \in 1..Len(kv) : kv[i].key # <<>> /\ kv[i].value # <<>>}
      last == {i \in kept : \A j \in kept : kv[j].key = kv[i].key => j <= i}
  IN [defined |-> kept # {},
      entries |-> {[key |-> kv[i].key, value |-> StripQuotes(kv[i].value)] :
                     i \in last},
      threw |-> \E i \in 1..Len(kv) : kv[i].threw]

\* A node of the returned list, and the node made for a variable that a
\* relationship names and no node pattern has registered.
Neo4jNode(variable, labels, properties) ==
  [variable |-> variable, labels |-> labels,
   properties |-> [defined |-> properties.defined,
                   entries |-> properties.entries]]

BareNode(variable) == Neo4jNode(variable, <<>>, NoProperties)

\* new Map(), whatever map an earlier call left
NewNodeMapShared(previous) == previous

NewNodeMap(previous) == {}

\* The state of one call: the two lists, the keys of nodeMap, and whether a
\* statement threw.
Parsing(nodes, relationships, nodeMap, threw) ==
  [nodes |-> nodes, relationships |-> relationships, nodeMap |-> nodeMap,
   threw |-> threw]

\* A node loop in which a later mention of a variable replaces its node.
RegisterNodeLastWins(st, m) ==
  LET Set(node, threw) ==
        IF m.variable \in st.nodeMap
        THEN Parsing([i \in 1..Len(st.nodes) |->
                        IF st.nodes[i].variable = m.variable THEN node
                        ELSE st.nodes[i]],
                     st.relationships, st.nodeMap, st.threw \/ threw)
        ELSE Parsing(Append(st.nodes, node), st.relationships,
                     st.nodeMap \cup {m.variable}, st.threw \/ threw)
      Push(properties) ==
        Set(Neo4jNode(m.variable, Labels(m.labelsPart), properties),
            properties.threw)
  IN Push(Properties(m.propertiesPart))

\* One iteration of the node loop on match m.
RegisterNode(st, m) ==
  LET Push(properties) ==
        Parsing(Append(st.nodes,
                       Neo4jNode(m.variable, Labels(m.labelsPart),
                                 properties)),
                st.relationships,
                st.nodeMap \cup {m.variable},
                st.threw \/ properties.threw)
  IN IF m.variable \in st.nodeMap THEN st
     ELSE Push(Properties(m.propertiesPart))

\* while ((match = nodePattern.exec(normalizedQuery)) !== null), from
\* position i (lastIndex) of s.
RECURSIVE ExtractNodes(_, _, _)
ExtractNodes(s, i, st) ==
  IF i > Len(s) \/ st.threw THEN st
  ELSE LET Step(m) ==
             IF m.ok THEN ExtractNodes(s, m.end, RegisterNode(st, m))
             ELSE ExtractNodes(s, i + 1, st)
       IN Step(MatchNode(s, i))

\* if (!nodeMap.has(v)) { nodes.push({variable: v, labels: []}); ... }
EnsureNode(st, v) ==
  IF v \in st.nodeMap THEN st
  ELSE Parsing(Append(st.nodes, BareNode(v)), st.relationships,
               st.nodeMap \cup {v}, st.threw)

\* The same loop body without the statement for the target variable.
RegisterRelationshipSourceOnly(st, m) ==
  LET Push(properties) ==
        Parsing(st.nodes,
                Append(st.relationships,
                       [variable |-> m.relVar,
                        type |-> IF m.relType = <<>> THEN <<"RELATED_TO">>
                         ELSE m.relType,
                        source |-> m.sourceVar,
                        target |-> m.targetVar,
                        properties |-> [defined |-> properties.defined,
                                        entries |-> properties.entries]]),
                st.nodeMap,
                st.threw \/ properties.threw)
      Ensure(pushed) ==
        IF pushed.threw THEN pushed
        ELSE EnsureNode(pushed, m.sourceVar)
  IN Ensure(Push(Properties(m.propsPart)))

\* The relationship pushed without the default for a missing type.
RegisterRelationshipNoDefault(st, m) ==
  LET Push(properties) ==
        Parsing(st.nodes,
                Append(st.relationships,
                       [variable |-> m.relVar,
                        type |-> m.relType,
                        source |-> m.sourceVar,
                        target |-> m.targetVar,
                        properties |-> [defined |-> properties.defined,
                                        entries |-> properties.entries]]),
                st.nodeMap,
                st.threw \/ properties.threw)
      Ensure(pushed) ==
        IF pushed.threw THEN pushed
        ELSE EnsureNode(EnsureNode(pushed, m.sourceVar), m.targetVar)
  IN Ensure(Push(Properties(m.propsPart)))

\* One iteration of the relationship loop on match m: the relationship is
\* pushed (variable <<>> stands for undefined), then its source and its
\* target are added to the nodes when nodeMap lacks them.
RegisterRelationship(st, m) ==
  LET Push(properties) ==
        Parsing(st.nodes,
                Append(st.relationships,
                       [variable |-> m.relVar,
                        type |-> IF m.relType = <<>> THEN <<"RELATED_TO">>
                         ELSE m.relType,
                        source |-> m.sourceVar,
                        target |-> m.targetVar,
                        properties |-> [defined |-> properties.defined,
                                        entries |-> properties.entries]]),
                st.nodeMap,
                st.threw \/ properties.threw)
      Ensure(pushed) ==
        IF pushed.threw THEN pushed
        ELSE EnsureNode(EnsureNode(pushed, m.sourceVar), m.targetVar)
  IN Ensure(Push(Properties(m.propsPart)))

\* while ((match = relPattern.exec(normalizedQuery)) !== null), from
\* position i (lastIndex) of s.
RECURSIVE ExtractRelationships(_, _, _)
ExtractRelationships(s, i, st) ==
  IF i > Len(s) \/ st.threw THEN st
  ELSE LET Step(m) ==
             IF m.ok
             THEN ExtractRelationships(s, m.end, RegisterRelationship(st, m))
             ELSE ExtractRelationships(s, i + 1, st)
       IN Step(MatchRelationship(s, i))

\* parseCypherQuery(cypher), called when the last call left nodeMap
\* `previous`: the text the patterns ran on, the returned lists, and whether
\* the call threw.
ParseCypherQuery(cypher, previous) ==
  LET Return(normalizedQuery, st) ==
        [query |-> cypher, normalizedQuery |-> normalizedQuery,
         nodes |-> st.nodes, relationships |-> st.relationships,
         nodeMap |-> st.nodeMap, threw |-> st.threw]
      Extract(normalizedQuery, start) ==
        Return(normalizedQuery,
               ExtractRelationships(normalizedQuery, 1,
                                    ExtractNodes(normalizedQuery, 1, start)))
  IN Extract(NormalizeQuery(cypher),
             Parsing(<<>>, <<>>, NewNodeMap(previous), FALSE))

\* labels.join(':')
RECURSIVE JoinLabels(_)
JoinLabels(labels) ==
  IF labels = <<>> THEN <<>>
  ELSE IF Len(labels) = 1 THEN Head(labels)
  ELSE Head(labels) \o <<":">> \o JoinLabels(Tail(labels))

\* A node whose id is its primary label.
CreateGraphinNodeByLabel(node) ==
  [id |-> IF node.labels = <<>> THEN <<"Node">> ELSE node.labels[1],
   label |-> node.variable \o <<":">> \o JoinLabels(node.labels),
   data |-> [label |-> IF node.labels = <<>> THEN <<"Node">>
                       ELSE node.labels[1],
             properties |-> node.properties.entries]]

\* createGraphinNode without the colours: the id, the label shown and the
\* data; node.labels[0] || 'Node' and node.properties || {}.
CreateGraphinNode(node) ==
  [id |-> node.variable,
   label |-> node.variable \o <<":">> \o JoinLabels(node.labels),
   data |-> [label |-> IF node.labels = <<>> THEN <<"Node">>
                       ELSE node.labels[1],
             properties |-> node.properties.entries]]

\* createGraphinEdge without the style constants; a relationship without a
\* variable gets the id `${source}-${type}->${target}`.
CreateGraphinEdge(relationship) ==
  [id |-> IF relationship.variable # <<>> THEN relationship.variable
          ELSE relationship.source \o <<"-">> \o relationship.type
                 \o <<"-", ">">> \o relationship.target,
   source |-> relationship.source,
   target |-> relationship.target,
   label |-> relationship.type,
   data |-> [type |-> relationship.type,
             properties |-> relationship.properties.entries]]

TransformCypherToGraphin(nodes, relationships) ==
  [nodes |-> [n \in 1..Len(nodes) |-> CreateGraphinNode(nodes[n])],
   edges |-> [r \in 1..Len(relationships) |->
                CreateGraphinEdge(relationships[r])]]

\* The pieces the queries of the exhaustive runs are concatenated from: node
\* patterns without and with a label, connectors, whitespace, the comment
\* marker, and single parentheses and braces.
Pieces ==
  { <<"(", "a", ")">>, <<"(", "b", ")">>,
    <<"(", "a", ":", "Person", ")">>, <<"(", "b", ":", "Person", ")">>,
    <<"-", "[", ":", "KNOWS", "]", "-", ">">>,
    <<"-", "[", "r", "]", "-", ">">>,
    <<"-", "-", ">">>, <<"-">>,
    <<SP>>, <<"\n">>, <<"/", "/">>, <<"(">>, <<")">>, <<"{">>, <<"}">> }

RECURSIVE Concat(_)
Concat(ps) == IF ps = <<>> THEN <<>> ELSE Head(ps) \o Concat(Tail(ps))

\* The queries of at most n pieces.
QueryTexts(n) == {Concat(ps) : ps \in UNION {[1..k -> Pieces] : k \in 0..n}}

\* Queries of the visualisation: the patterns the documentation of the parser
\* names, shorthand connectors, comments, repeated variables, and text that
\* is no pattern.
Queries ==
  { <<>>,
    <<"(", "a", ":", "Person", ")", "-", "[", ":", "KNOWS", "]", "-", ">",
      "(", "b", ":", "Person", ")">>,
    <<"(", "a", ")", "-", "[", ":", "X", "]", "-", ">", "(", "c", ")">>,
    <<"(", "a", SP, "{", "(", "b", ")", "-", "(", "c", ")", "}", ")">>,
    <<"(", "a", ":", "Person", SP, "{", "k", ":", SP, "\"", "v", "\"",
      "}", ")", COMMA, SP, "(", "a", ":", "X", SP, "{", "k", ":", "a", "}",
      ")">>,
    <<"(", "a", ")", SP, "/", "/", SP, "k", "\n", "(", "b", ")", "-", "[",
      ":", "X", "]", "-", ">", "(", "c", ")">>,
    <<"(", "a", ")", "-", "[", "r", ":", "KNOWS", SP, "{", "k", ":", "v",
      COMMA, "k", "}", "]", "-", ">", "(", "b", ")">>,
    <<"(", "a", ")", "-", "[", "]", "-", ">", "(", "b", ")">>,
    <<"(", "a", ")", "-", ">", "(", "b", ")">>,
    <<"(", "a", ")", "-", "-", "(", "b", ")">>,
    <<"(", "(", "a", SP, "{", "k">>,
    <<"(", "b", ")">>,
    <<"(", "a", ")", "-", "[", ":", "X", "]", "-", ">", "(", "b", ")",
      "-", "[", ":", "Y", "]", "-", ">", "(", "c", ")">> }

\* QueryGraph computes graphData for one of the queries qs: it calls
\* parseCypherQuery and transformCypherToGraphin, and shows the empty graph
\* when one of them throws.
ParseCall(qs) ==
  /\ \E q \in qs :
       \E parsed \in {ParseCypherQuery(q, IF calls = <<>> THEN {}
                                          ELSE calls[Len(calls)].nodeMap)} :
         /\ calls' = Append(calls, parsed)
         /\ graphData' = IF parsed.threw THEN EmptyGraph
                         ELSE TransformCypherToGraphin(parsed.nodes,
                                                       parsed.relationships)
  /\ UNCHANGED notPzVars

InitParse == WorkflowInit /\ driver = TRUE /\ NormalizerIdle /\ ParserIdle
               /\ RunQueryIdle

\* One call, on any query of at most MaxPieces pieces or any of Queries.
ParseOnce ==
  /\ calls = <<>>
  /\ ParseCall(QueryTexts(MaxPieces) \cup Queries)

SpecParse == InitParse /\ [][ParseOnce]_vars

\* Up to MaxCalls calls in a row, each on any of Queries.
ParseAgain ==
  /\ Len(calls) < MaxCalls
  /\ ParseCall(Queries)

SpecParseCalls == InitParse /\ [][ParseAgain]_vars

\* ------------------------------------------------- parser: the properties
Undefined == [defined |-> FALSE, entries |-> {}]

Rel(variable, type, source, target) ==
  [variable |-> variable, type |-> type, source |-> source,
   target |-> target, properties |-> Undefined]

Labelled(v, l) == <<"(", v, ":", l, ")">>

Bare(v) == <<"(", v, ")">>

Typed(t) == <<"-", "[", ":", t, "]", "-", ">">>

\* C22 (as claimed): a directed, typed relationship between two labelled
\* node patterns is extracted with its type, source and target, next to the
\* two labelled nodes.
C22_LabelledEndpoints ==
  \A i \in 1..Len(calls) :
    \A v1, v2 \in {"a", "b"} :
      (v1 # v2 /\ calls[i].query
                    = Labelled(v1, "Person") \o Typed("KNOWS")
                        \o Labelled(v2, "Person"))
        => /\ calls[i].nodes
                = <<[variable |-> <<v1>>, labels |-> <<<<"Person">>>>,
                     properties |-> Undefined],
                    [variable |-> <<v2>>, labels |-> <<<<"Person">>>>,
                     properties |-> Undefined]>>
           /\ calls[i].relationships
                = <<Rel(<<>>, <<"KNOWS">>, <<v1>>, <<v2>>)>>

NodeVariables(call) == {call.nodes[n].variable : n \in 1..Len(call.nodes)}

\* The matches of the node pattern in s from position i on, in order.
RECURSIVE NodeMatches(_, _)
NodeMatches(s, i) ==
  IF i > Len(s) THEN <<>>
  ELSE IF MatchNode(s, i).ok
  THEN <<MatchNode(s, i)>> \o NodeMatches(s, MatchNode(s, i).end)
  ELSE NodeMatches(s, i + 1)

MatchedVariables(call) ==
  {NodeMatches(call.normalizedQuery, 1)[k].variable :
     k \in 1..Len(NodeMatches(call.normalizedQuery, 1))}

\* C23: in every returned pattern the source and the target of every
\* relationship are variables of returned nodes, and a variable that only a
\* relationship names is a node without labels and properties.
C23_EndpointsAreNodes ==
  \A i \in 1..Len(calls) :
    /\ \A r \in 1..Len(calls[i].relationships) :
         /\ calls[i].relationships[r].source \in NodeVariables(calls[i])
         /\ calls[i].relationships[r].target \in NodeVariables(calls[i])
    /\ \A n \in 1..Len(calls[i].nodes) :
         calls[i].nodes[n].variable \notin MatchedVariables(calls[i])
           => calls[i].nodes[n] = BareNode(calls[i].nodes[n].variable)

C23_Witness ==
  /\ Len(calls) = 1
  /\ calls[1].query
       = <<"(", "a", SP, "{", "(", "b", ")", "-", "(", "c", ")", "}", ")">>
  /\ calls[1].relationships
       = <<Rel(<<>>, <<"RELATED_TO">>, <<"b">>, <<"c">>)>>
  /\ calls[1].nodes
       = <<BareNode(<<"a">>), BareNode(<<"b">>), BareNode(<<"c">>)>>

\* C24: the returned nodes have pairwise different variables, and a node a
\* node pattern registered has the labels and the properties of the first
\* match of the node pattern with its variable.
C24_FirstOccurrenceWins ==
  \A i \in 1..Len(calls) :
    LET ms == NodeMatches(calls[i].normalizedQuery, 1) IN
    /\ \A n, m \in 1..Len(calls[i].nodes) :
         calls[i].nodes[n].variable = calls[i].nodes[m].variable => n = m
    /\ \A n \in 1..Len(calls[i].nodes) :
         \A k \in 1..Len(ms) :
           (/\ ms[k].variable = calls[i].nodes[n].variable
            /\ \A j \in 1..(k - 1) : ms[j].variable # ms[k].variable)
             => calls[i].nodes[n]
                  = Neo4jNode(ms[k].variable, Labels(ms[k].labelsPart),
                              Properties(ms[k].propertiesPart))

C24_Witness ==
  /\ Len(calls) = 1
  /\ Len(NodeMatches(calls[1].normalizedQuery, 1)) = 2
  /\ calls[1].nodes
       = <<[variable |-> <<"a">>, labels |-> <<<<"Person">>>>,
            properties |-> [defined |-> TRUE,
                            entries |-> {[key |-> <<"k">>,
                                          value |-> <<"v">>]}]]>>

\* C25 (as claimed): a comment ends with its line, so a query gives the
\* nodes and relationships it gives with each comment cut out up to the end
\* of its line.
C25_CommentEndsWithLine ==
  \A i \in 1..Len(calls) :
    LET cut == ParseCypherQuery(RemoveComments(calls[i].query), {}) IN
    /\ calls[i].nodes = cut.nodes
    /\ calls[i].relationships = cut.relationships

Untyped ==
  { <<"-", "[", "r", "]", "-", ">">>, <<"-", "[", "]", "-", ">">>,
    <<"-", "-", ">">>, <<"-", ">">>, <<"-", "-">>, <<"-">> }

\* C26: no extracted relationship has an empty type; a relationship written
\* without a type, in the bracket form or in a shorthand form, has type
\* RELATED_TO and one written with a type has that type.
C26_TypeOrDefault ==
  \A i \in 1..Len(calls) :
    /\ \A r \in 1..Len(calls[i].relationships) :
         calls[i].relationships[r].type # <<>>
    /\ \A c \in Untyped :
         calls[i].query = Bare("a") \o c \o Bare("b")
           => /\ Len(calls[i].relationships) = 1
              /\ calls[i].relationships[1].type = <<"RELATED_TO">>
              /\ calls[i].relationships[1].source = <<"a">>
              /\ calls[i].relationships[1].target = <<"b">>
    /\ calls[i].query = Bare("a") \o Typed("KNOWS") \o Bare("b")
         => calls[i].relationships
              = <<Rel(<<>>, <<"KNOWS">>, <<"a">>, <<"b">>)>>

C26_Witness ==
  /\ Len(calls) = 1
  /\ calls[1].query = Bare("a") \o <<"-", "-">> \o Bare("b")
  /\ calls[1].relationships
       = <<Rel(<<>>, <<"RELATED_TO">>, <<"a">>, <<"b">>)>>

\* C27: no call throws, whatever the query.
C27_NeverThrows == \A i \in 1..Len(calls) : ~calls[i].threw

C27_Witness ==
  /\ Len(calls) = 1
  /\ calls[1].query = <<"(", "(", "a", SP, "{", "k">>
  /\ ~calls[1].threw
  /\ calls[1].nodes = <<>>
  /\ calls[1].relationships = <<>>

\* C28: two calls on the same query return the same nodes and the same
\* relationships, whatever calls were made before and between them.
C28_SameTextSameOutput ==
  \A i, j \in 1..Len(calls) :
    calls[i].query = calls[j].query
      => /\ calls[i].nodes = calls[j].nodes
         /\ calls[i].relationships = calls[j].relationships

C28_Witness ==
  /\ Len(calls) = 3
  /\ calls[1].query = calls[3].query
  /\ calls[2].query = Bare("b")
  /\ calls[1].query
       = Labelled("a", "Person") \o Typed("KNOWS") \o Labelled("b", "Person")
  /\ Len(calls[3].nodes) = 2

\* ------------------------------------------------- the run-query mutation
\* useRunQuery's mutationFn with handleSummaryResults, handleLLMError and
\* summarizeQueryResults.  The results slice holds what setResults and
\* setResultsSummary were dispatched with; its data is the value of sparql.
SummaryReplies == {"summary one", "summary two"}

\* A turn of the explanation request, and the reply to it once it arrived.
SummaryTurn(role, about) == [role |-> role, about |-> about, reply |-> ""]

SystemGuidance == SummaryTurn("system", "guidance")
UserRequest == SummaryTurn("user", "query and results")
ErrorRequest(message) == SummaryTurn("user", message)

\* The two turns in the other order.
SummarizeTurnUserFirst(n) == IF n = 1 THEN UserRequest ELSE SystemGuidance

\* The n-th sendMessages call of summarizeQueryResults.
SummarizeTurn(n) == IF n = 1 THEN SystemGuidance ELSE UserRequest

\* The last turn of log answered with reply r.
Answered(log, r) ==
  [i \in 1..Len(log) |->
     IF i = Len(log) THEN [log[i] EXCEPT !.reply = r] ELSE log[i]]

\* The catch block of mutationFn: the error is stored and handleLLMError
\* sends its message to the chat; mutationFn returns.
QueryFailed(message) ==
  /\ results' = [data |-> "null", error |-> message, summary |-> "null"]
  /\ chatLog' = <<ErrorRequest(message)>>
  /\ summaryPc' = "awaitExplain"
  /\ mutation' = "success"

\* mutate(query): with the store's connected flag unset mutationFn throws
\* before its try block; with no driver runCypherQuery throws inside it;
\* otherwise the query is handed to the store.
Mutate ==
  /\ mutation = "idle"
  /\ summaryPc = "idle"
  /\ \E isConnected \in BOOLEAN :
       IF ~isConnected
       THEN /\ mutation' = "error"
            /\ UNCHANGED <<results, summaryPc, chatLog>>
       ELSE IF ~driver
       THEN QueryFailed(NotConnectedError.msg)
       ELSE /\ mutation' = "pending"
            /\ UNCHANGED <<results, summaryPc, chatLog>>
  /\ UNCHANGED nzVars
  /\ UNCHANGED notRqVars

\* runCypherQuery resolves: the result is formatted and converted; when the
\* conversion throws the catch block runs, else the bindings are stored and
\* handleSummaryResults makes the first call of summarizeQueryResults.
RunResolves ==
  /\ mutation = "pending"
  /\ \E storeResult \in
         {[keys |-> <<"a">>, records |-> <<>>]}
           \cup {[keys |-> <<"a">>, records |-> <<<<v>>>>] : v \in JsValues} :
       /\ raw' = storeResult
       /\ formatted' = FormatCypherResult(CypherResult(storeResult))
       /\ IF ConvertRaises(formatted')
          THEN /\ QueryFailed("TypeError")
               /\ sparql' = NoSparql
               /\ nzPc' = "raised"
          ELSE /\ sparql' = ConvertToSparqlResultsFormat(formatted')
               /\ nzPc' = "converted"
               /\ results' = [data |-> "sparql", error |-> "null",
                              summary |-> "null"]
               /\ chatLog' = <<SummarizeTurn(1)>>
               /\ summaryPc' = "awaitSystem"
               /\ mutation' = "success"
  /\ UNCHANGED notRqVars

\* runCypherQuery rejects with the store's error.
RunRejects ==
  /\ mutation = "pending"
  /\ \E msg \in StoreErrors : QueryFailed(Rethrow(StoreError(msg)).msg)
  /\ UNCHANGED nzVars
  /\ UNCHANGED notRqVars

\* The reply to the first turn arrives: summarizeQueryResults sends the
\* second.
GuidanceReply ==
  /\ summaryPc = "awaitSystem"
  /\ \E r \in SummaryReplies :
       chatLog' = Append(Answered(chatLog, r), SummarizeTurn(2))
  /\ summaryPc' = "awaitUser"
  /\ UNCHANGED <<mutation, results>>
  /\ UNCHANGED nzVars
  /\ UNCHANGED notRqVars

\* return response.content: the reply to the last turn.
SummaryOf(log) == log[Len(log)].reply

\* The reply to the second turn, or to the error request, arrives: it is
\* stored as the summary.
SummaryReply ==
  /\ summaryPc \in {"awaitUser", "awaitExplain"}
  /\ \E r \in SummaryReplies :
       /\ chatLog' = Answered(chatLog, r)
       /\ results' = [results EXCEPT !.summary = SummaryOf(chatLog')]
  /\ summaryPc' = "done"
  /\ UNCHANGED mutation
  /\ UNCHANGED nzVars
  /\ UNCHANGED notRqVars

\* A sendMessages call of the explanation request rejects: the catch block
\* of handleSummaryResults or handleLLMError logs it.
SummaryChatFail ==
  /\ summaryPc \in {"awaitSystem", "awaitUser", "awaitExplain"}
  /\ summaryPc' = "failed"
  /\ UNCHANGED <<mutation, results, chatLog>>
  /\ UNCHANGED nzVars
  /\ UNCHANGED notRqVars

\* summarizeQueryResults called with an error outcome: it throws at once.
SummarizeError ==
  /\ mutation = "idle"
  /\ summaryPc = "idle"
  /\ summaryPc' = "threw"
  /\ UNCHANGED <<mutation, results, chatLog>>
  /\ UNCHANGED nzVars
  /\ UNCHANGED notRqVars

InitRunQuery == WorkflowInit /\ NormalizerIdle /\ ParserIdle /\ RunQueryIdle

NextRunQuery ==
  Mutate \/ RunResolves \/ RunRejects \/ GuidanceReply \/ SummaryReply
    \/ SummaryChatFail \/ SummarizeError

SpecRunQuery == InitRunQuery /\ [][NextRunQuery]_vars

\* C30: once a query was executed its result or error is stored and the
\* explanation was requested, the request never before the storing; a failed
\* chat call of the request leaves the mutation succeeded; the request for a
\* result sends the guidance turn, then the user turn, and stores the reply
\* to the user turn; summarizeQueryResults given an error outcome throws
\* with no turn sent.
C30_ExplanationAfterStoring ==
  /\ [](mutation = "success" => (results # NoResults /\ chatLog # <<>>))
  /\ [][(chatLog = <<>> /\ chatLog' # <<>>)
          => (results' # NoResults /\ results'.summary = "null")]_vars
  /\ [](summaryPc = "failed" => mutation = "success")
  /\ [](results.data = "sparql" =>
          /\ \A n \in 1..Len(chatLog) : chatLog[n].role = SummarizeTurn(n).role
          /\ (Len(chatLog) = 2 => chatLog[1].reply # "")
          /\ (summaryPc = "done" =>
                (Len(chatLog) = 2 /\ chatLog[2].role = "user"
                   /\ results.summary = chatLog[2].reply)))
  /\ [](summaryPc = "threw" => chatLog = <<>>)

C30_Witness ==
  /\ mutation = "success"
  /\ results.data = "sparql"
  /\ summaryPc = "done"
  /\ chatLog[1].role = "system"
  /\ chatLog[1].reply = "summary one"
  /\ chatLog[2].reply = "summary two"
  /\ results.summary = "summary two"

\* ------------------------------------------- the graph of the query
\* C38 (as claimed): of a chain of bare nodes every relationship is
\* extracted, the one that starts at the node the one before ended at
\* included.
C38_EveryRelationshipOfChain ==
  \A i \in 1..Len(calls) :
    calls[i].query = Bare("a") \o Typed("X") \o Bare("b") \o Typed("Y")
                       \o Bare("c")
      => calls[i].relationships
           = <<Rel(<<>>, <<"X">>, <<"a">>, <<"b">>),
               Rel(<<>>, <<"Y">>, <<"b">>, <<"c">>)>>

\* C39: the graph shown for a query has pairwise different node ids, one
\* edge for each relationship parseCypherQuery returned, in their order, and
\* the source and the target of every edge are ids of its nodes.
C39_GraphIsClosed ==
  calls # <<>> =>
    /\ \A n, m \in 1..Len(graphData.nodes) :
         graphData.nodes[n].id = graphData.nodes[m].id => n = m
    /\ Len(graphData.edges) = Len(calls[Len(calls)].relationships)
    /\ \A e \in 1..Len(graphData.edges) :
         /\ graphData.edges[e].source
              = calls[Len(calls)].relationships[e].source
         /\ graphData.edges[e].target
              = calls[Len(calls)].relationships[e].target
         /\ \E n \in 1..Len(graphData.nodes) :
              graphData.nodes[n].id = graphData.edges[e].source
         /\ \E n \in 1..Len(graphData.nodes) :
              graphData.nodes[n].id = graphData.edges[e].target

C39_Witness ==
  /\ Len(calls) = 1
  /\ calls[1].query = Bare("a") \o Typed("X") \o Bare("c")
  /\ Len(graphData.nodes) = 2
  /\ graphData.nodes[1].id = <<"a">>
  /\ graphData.nodes[2].id = <<"c">>
  /\ graphData.nodes[2].label = <<"c", ":">>
  /\ graphData.nodes[2].data.label = <<"Node">>
  /\ Len(graphData.edges) = 1
  /\ graphData.edges[1].id = <<"a", "-", "X", "-", ">", "c">>
  /\ graphData.edges[1].source = <<"a">>
  /\ graphData.edges[1].target = <<"c">>

\* ------------------------------------------------ cells and entities
\* C40 (as claimed): the binding of an object cell has type uri exactly when
\* isNeo4jEntity holds of the object.
C40_UriIffEntity ==
  nzPc = "converted" =>
    \A x \in Cells :
      LET value == formatted.rows[x.r][x.c]
      IN (~IsNullish(value) /\ TypeOf(value) = "object")
           => (sparql.bindings[x.r][formatted.columns[x.c]].type = "uri"
                 <=> IsNeo4jEntity(value))

\* ---------------------------------------------------- the query history
\* queryHistorySlice.  A payload names the keys it holds; null is "null".
DataPayload(cypher, data) ==
  [query |-> cypher, keys |-> {"data", "query"}, data |-> data,
   error |-> "null"]

ErrorPayload(cypher, error) ==
  [query |-> cypher, keys |-> {"error", "query"}, data |-> "null",
   error |-> error]

\* A reducer that pushes an entry for payloads with data only.
PushQueryHistoryDataOnly(state, payload) ==
  IF "data" \in payload.keys
  THEN Append(state, [name |-> "null", query |-> payload.query,
                      results |-> [data |-> payload.data, error |-> "null",
                                   summary |-> "null"]])
  ELSE state

PushQueryHistory(state, payload) ==
  IF "data" \in payload.keys
  THEN Append(state, [name |-> "null", query |-> payload.query,
                      results |-> [data |-> payload.data, error |-> "null",
                                   summary |-> "null"]])
  ELSE Append(state, [name |-> "null", query |-> payload.query,
                      results |-> [data |-> "null", error |-> payload.error,
                                   summary |-> "null"]])

\* A reducer that writes the name and the summary to the first entry.
UpdateFirstQueryHistory(state, payload) ==
  IF Len(state) > 0
  THEN [state EXCEPT ![1].name = payload.name,
                     ![1].results.summary = payload.summary]
  ELSE state

UpdateLastQueryHistory(state, payload) ==
  IF Len(state) > 0
  THEN [state EXCEPT ![Len(state)].name = payload.name,
                     ![Len(state)].results.summary = payload.summary]
  ELSE state

QueryTextsRun == {"query one", "query two"}

notHsVars ==
  <<wfVars, nzVars, pzVars, rqVars, cnVars, upload, idTable, drivers>>

\* dispatch(pushQueryHistory(payload)) with any payload of the payload type:
\* data and a query, an error message and a query, or all three keys.
DispatchPush ==
  /\ Len(queries) < MaxHistory
  /\ \E cypher \in QueryTextsRun :
       \E payload \in {DataPayload(cypher, "bindings"),
                        ErrorPayload(cypher, NOT_CONNECTED),
                        [DataPayload(cypher, "bindings")
                           EXCEPT !.keys = {"data", "error", "query"},
                                  !.error = NOT_CONNECTED]} :
         queries' = PushQueryHistory(queries, payload)
  /\ UNCHANGED runs
  /\ UNCHANGED notHsVars

\* dispatch(updateLastQueryHistory({name, summary}))
DispatchUpdate ==
  /\ \E name \in {"Query Result", "Error Analysis"} :
       \E summary \in SummaryReplies :
         queries' = UpdateLastQueryHistory(queries,
                                           [name |-> name,
                                            summary |-> summary])
  /\ UNCHANGED runs
  /\ UNCHANGED notHsVars

NextReducers == DispatchPush \/ DispatchUpdate

SpecReducers == InitRunQuery /\ [][NextReducers]_vars

Run(cypher, step) ==
  [query |-> cypher, pc |-> step, entry |-> 0, pushed |-> "nothing",
   recordedOn |-> 0]

\* mutate(query): with the connected flag unset mutationFn throws before its
\* try block; else it awaits runCypherQuery.
StartMutation ==
  /\ Len(runs) < MaxRuns
  /\ \E cypher \in QueryTextsRun, isConnected \in BOOLEAN :
       runs' = Append(runs, Run(cypher, IF isConnected THEN "awaitRun"
                                        ELSE "rejected"))
  /\ UNCHANGED <<queries, results>>
  /\ UNCHANGED <<mutation, summaryPc, chatLog>>
  /\ UNCHANGED <<wfVars, nzVars, pzVars, cnVars, upload, idTable, drivers>>

\* runCypherQuery of run i resolves and the conversion returns: the bindings
\* are stored and pushed, and summarizeQueryResults sends its first turn.
RunStored ==
  /\ \E i \in 1..Len(runs) :
       /\ runs[i].pc = "awaitRun"
       /\ results' = [data |-> "bindings", error |-> "null",
                      summary |-> "null"]
       /\ queries' = PushQueryHistory(queries,
                                      DataPayload(runs[i].query, "bindings"))
       /\ runs' = [runs EXCEPT ![i].pc = "awaitSystem",
                               ![i].entry = Len(queries'),
                               ![i].pushed = "data"]
  /\ UNCHANGED <<mutation, summaryPc, chatLog>>
  /\ UNCHANGED <<wfVars, nzVars, pzVars, cnVars, upload, idTable, drivers>>

\* runCypherQuery of run i rejects, or the conversion throws: the catch
\* block stores and pushes the message, and handleLLMError sends its turn.
RunCaught ==
  /\ \E i \in 1..Len(runs) :
       /\ runs[i].pc = "awaitRun"
       /\ \E message \in {NOT_CONNECTED, "TypeError"} :
            /\ results' = [data |-> "null", error |-> message,
                           summary |-> "null"]
            /\ queries' = PushQueryHistory(queries,
                                           ErrorPayload(runs[i].query,
                                                        message))
       /\ runs' = [runs EXCEPT ![i].pc = "awaitExplain",
                               ![i].entry = Len(queries'),
                               ![i].pushed = "error"]
  /\ UNCHANGED <<mutation, summaryPc, chatLog>>
  /\ UNCHANGED <<wfVars, nzVars, pzVars, cnVars, upload, idTable, drivers>>

\* The reply to the first turn of run i arrives: summarizeQueryResults sends
\* the second.
RunGuided ==
  /\ \E i \in 1..Len(runs) :
       /\ runs[i].pc = "awaitSystem"
       /\ runs' = [runs EXCEPT ![i].pc = "awaitUser"]
  /\ UNCHANGED <<queries, results>>
  /\ UNCHANGED <<mutation, summaryPc, chatLog>>
  /\ UNCHANGED <<wfVars, nzVars, pzVars, cnVars, upload, idTable, drivers>>

\* The explanation of run i arrives: setResultsSummary and
\* updateLastQueryHistory are dispatched with it.
RunExplained ==
  /\ \E i \in 1..Len(runs) :
       /\ runs[i].pc \in {"awaitUser", "awaitExplain"}
       /\ \E summary \in SummaryReplies :
            /\ results' = [results EXCEPT !.summary = summary]
            /\ queries' = UpdateLastQueryHistory(
                             queries,
                             [name |-> IF runs[i].pc = "awaitUser"
                                       THEN "Query Result"
                                       ELSE "Error Analysis",
                              summary |-> summary])
       /\ runs' = [runs EXCEPT ![i].pc = "done",
                               ![i].recordedOn = Len(queries)]
  /\ UNCHANGED <<mutation, summaryPc, chatLog>>
  /\ UNCHANGED <<wfVars, nzVars, pzVars, cnVars, upload, idTable, drivers>>

\* A chat call of run i rejects: the catch block of handleSummaryResults or
\* handleLLMError logs it.
RunUnexplained ==
  /\ \E i \in 1..Len(runs) :
       /\ runs[i].pc \in {"awaitSystem", "awaitUser", "awaitExplain"}
       /\ runs' = [runs EXCEPT ![i].pc = "failed"]
  /\ UNCHANGED <<queries, results>>
  /\ UNCHANGED <<mutation, summaryPc, chatLog>>
  /\ UNCHANGED <<wfVars, nzVars, pzVars, cnVars, upload, idTable, drivers>>

NextHistory ==
  StartMutation \/ RunStored \/ RunCaught \/ RunGuided \/ RunExplained
    \/ RunUnexplained

SpecHistory == InitRunQuery /\ [][NextHistory]_vars

\* C31 (as claimed): an explanation is written to the history entry of the
\* run it explains.
C31_SummaryOnOwnEntry ==
  \A i \in 1..Len(runs) :
    runs[i].pc = "done" => runs[i].recordedOn = runs[i].entry

Settled(i) == runs[i].pc \notin {"rejected", "awaitRun"}

\* C32: a run started connected has, once runCypherQuery settled, one entry
\* of its own with its query, holding data when the bindings were stored and
\* an error when the catch block ran; a run started not connected has none;
\* the history holds no other entry; starting a run not connected leaves the
\* history and the results as they were.
C32_OneEntryPerRun ==
  /\ [](/\ \A i \in 1..Len(runs) :
            IF Settled(i)
            THEN /\ runs[i].entry \in 1..Len(queries)
                 /\ queries[runs[i].entry].query = runs[i].query
                 /\ (queries[runs[i].entry].results.data # "null")
                      <=> runs[i].pushed = "data"
                 /\ (queries[runs[i].entry].results.error # "null")
                      <=> runs[i].pushed = "error"
            ELSE runs[i].entry = 0 /\ runs[i].pushed = "nothing"
        /\ \A i, j \in 1..Len(runs) :
             (Settled(i) /\ Settled(j) /\ runs[i].entry = runs[j].entry)
               => i = j
        /\ Len(queries) = Cardinality({i \in 1..Len(runs) : Settled(i)}))
  /\ [][(Len(runs') > Len(runs) /\ runs'[Len(runs')].pc = "rejected")
          => (queries' = queries /\ results' = results)]_vars

C32_Witness ==
  /\ Len(runs) = 2
  /\ runs[1].pc = "rejected"
  /\ runs[2].pc = "awaitExplain"
  /\ Len(queries) = 1
  /\ queries[1].query = runs[2].query
  /\ queries[1].results.error = "TypeError"
  /\ results.error = "TypeError"

\* ------------------------------------------------- the connection form
\* The Neo4jConnection singleton as far as its driver goes: whether it holds
\* one, and how many drivers were created and not closed.
\*
\* A connect that creates the new driver without closing the one it holds.
Neo4jConnectKeepOpen(held, open, created) ==
  IF created THEN [driver |-> TRUE, open |-> open + 1, success |-> TRUE]
  ELSE [driver |-> held, open |-> open, success |-> FALSE]

\* close(): the driver, when there is one, is closed and dropped.
Neo4jClose(held, open) ==
  IF held THEN [driver |-> FALSE, open |-> open - 1]
  ELSE [driver |-> FALSE, open |-> open]

\* connect(...): the driver held is closed first; createDriver returns the
\* new driver (created) or throws, and then connect returns false.
Neo4jConnect(held, open, created) ==
  IF created
  THEN [driver |-> TRUE, open |-> Neo4jClose(held, open).open + 1,
        success |-> TRUE]
  ELSE [driver |-> FALSE, open |-> Neo4jClose(held, open).open,
        success |-> FALSE]

\* isConnected()
IsConnected(held) == held

FAILED_TO_CONNECT == "Failed to connect to Neo4j"

\* A thunk that was dispatched and has not settled, with the action it will
\* settle with.
Thunk(type, settles, payload) ==
  [type |-> type, settles |-> settles, payload |-> payload]

\* extraReducers
ConnectPending(state) ==
  [state EXCEPT !.isConnecting = TRUE, !.error = "null"]

ConnectFulfilled(state, payload) ==
  [state EXCEPT !.isConnecting = FALSE, !.connected = TRUE,
                !.details = payload]

ConnectRejected(state, payload) ==
  [state EXCEPT !.isConnecting = FALSE, !.connected = FALSE,
                !.error = payload]

DisconnectFulfilled(state) ==
  [state EXCEPT !.connected = FALSE, !.details = ""]

notCnVars ==
  <<pc, NO_FOREVER_LOOP, llmResponse, handler, searchArg, query, sent,
    result, delivered, fault, chatFaults, loopChats, finalSent, exitBy,
    inFlight, runQueryPc, settled, sessions, nzVars, pzVars, rqVars, hsVars,
    upload, idTable>>

\* dispatch(connectToNeo4j(...)): pending is dispatched, and the payload
\* creator runs to its await: connect has returned by then, and what the
\* thunk settles with is decided, by connect's return value and by whether
\* getConnectionDetails returns the details or throws.
DispatchConnect ==
  /\ Len(thunks) < MaxThunks
  /\ connection' = ConnectPending(connection)
  /\ \E created \in BOOLEAN, detailed \in BOOLEAN :
       \E after \in {Neo4jConnect(driver, drivers, created)} :
         /\ driver' = after.driver
         /\ drivers' = after.open
         /\ thunks' =
              Append(thunks,
                     IF ~after.success
                     THEN Thunk("connect", "rejected", FAILED_TO_CONNECT)
                     ELSE IF detailed
                     THEN Thunk("connect", "fulfilled", "bolt://store")
                     ELSE Thunk("connect", "rejected", "TypeError"))
  /\ UNCHANGED notCnVars

\* dispatch(disconnectFromNeo4j()): the thunk awaits
\* neo4jConnection.disconnect(), which resolves or throws, and may have
\* closed the driver.
DispatchDisconnect ==
  /\ Len(thunks) < MaxThunks
  /\ \E resolves \in BOOLEAN, closes \in BOOLEAN :
       /\ thunks' = Append(thunks,
                           Thunk("disconnect",
                                 IF resolves THEN "fulfilled" ELSE "rejected",
                                 "Failed to disconnect from Neo4j"))
       /\ \E after \in {IF closes THEN Neo4jClose(driver, drivers)
                         ELSE [driver |-> driver, open |-> drivers]} :
            /\ driver' = after.driver
            /\ drivers' = after.open
  /\ UNCHANGED connection
  /\ UNCHANGED notCnVars

\* neo4jConnection.close()
CloseCall ==
  /\ driver' = Neo4jClose(driver, drivers).driver
  /\ drivers' = Neo4jClose(driver, drivers).open
  /\ UNCHANGED cnVars
  /\ UNCHANGED notCnVars

\* A thunk settles and its action is reduced.  The connect thunks await
\* nothing that takes time, so they settle in the order they were
\* dispatched in; a disconnect settles whenever its request does.
SettleThunk ==
  /\ \E i \in 1..Len(thunks) :
       /\ thunks[i].type = "connect"
            => \A j \in 1..(i - 1) : thunks[j].type # "connect"
       /\ connection' =
            IF thunks[i].type = "connect"
            THEN IF thunks[i].settles = "fulfilled"
                 THEN ConnectFulfilled(connection, thunks[i].payload)
                 ELSE ConnectRejected(connection, thunks[i].payload)
            ELSE IF thunks[i].settles = "fulfilled"
            THEN DisconnectFulfilled(connection)
            ELSE connection
       /\ thunks' = SubSeq(thunks, 1, i - 1)
                      \o SubSeq(thunks, i + 1, Len(thunks))
  /\ UNCHANGED <<driver, drivers>>
  /\ UNCHANGED notCnVars

InitConnection == InitRunQuery /\ driver = FALSE

NextConnection ==
  DispatchConnect \/ DispatchDisconnect \/ CloseCall \/ SettleThunk

SpecConnection == InitConnection /\ [][NextConnection]_vars

\* C34 (as claimed): while the slice says connected it holds no error.
C34_ConnectedWithoutError ==
  connection.connected => connection.error = "null"

\* C35: at most one driver is open; the connection holds a driver, and says
\* it is connected, exactly when one is open; a connect whose createDriver
\* throws leaves no driver held and none open.
C35_AtMostOneDriver ==
  /\ [](drivers \in {0, 1})
  /\ [](IsConnected(driver) <=> drivers = 1)
  /\ [][(/\ Len(thunks') > Len(thunks)
         /\ thunks'[Len(thunks')].payload = FAILED_TO_CONNECT)
          => (~IsConnected(driver') /\ drivers' = 0)]_vars

C35_Witness ==
  /\ Len(thunks) = 2
  /\ thunks[1].settles = "fulfilled"
  /\ thunks[1].type = "connect"
  /\ thunks[2].payload = FAILED_TO_CONNECT
  /\ ~IsConnected(driver)
  /\ drivers = 0

\* ------------------------------------------------------ uploadDocument
\* Math.round(((chunkIndex + 1) / totalChunks) * 100), for done =
\* chunkIndex + 1.  The quotient and the product are doubles: for the pairs
\* of HalfMissed the exact value ends in .5 and the double falls just below
\* it, so Math.round gives one less than rounding the exact value half up
\* (these are all such pairs for totalChunks up to 203).
HalfMissed ==
  {<<23, 40>>, <<46, 80>>, <<69, 120>>, <<92, 160>>,
   <<29, 200>>, <<57, 200>>, <<113, 200>>, <<115, 200>>}

Progress(done, totalChunks) ==
  ((200 * done + totalChunks) \div (2 * totalChunks))
    - (IF <<done, totalChunks>> \in HalfMissed THEN 1 ELSE 0)

notUpVars == <<wfVars, nzVars, pzVars, rqVars, hsVars, cnVars, idTable, drivers>>

\* The statements after the loop condition was tested for index: the post of
\* the next chunk, or triggerExtraction's post when no chunk is left.
NextRequest(up, index) ==
  IF index < up.totalChunks
  THEN [up EXCEPT !.pc = "upload", !.chunkIndex = index,
                  !.posts = up.posts + 1]
  ELSE [up EXCEPT !.pc = "extract", !.chunkIndex = index,
                  !.extractions = up.extractions + 1]

\* uploadDocument(file, ..., onProgress) to its first await; totalChunks is
\* Math.ceil(file.size / CHUNK_SIZE).
UploadDocument ==
  /\ upload.pc = "idle"
  /\ \E totalChunks \in 0..MaxChunks, onProgress \in BOOLEAN :
       upload' = NextRequest([NoUpload EXCEPT !.totalChunks = totalChunks,
                                              !.onProgress = onProgress], 0)
  /\ UNCHANGED notUpVars

\* The post of a chunk resolves: progress is reported and the loop goes on.
ChunkPosted ==
  /\ upload.pc = "upload"
  /\ upload' =
       NextRequest([upload EXCEPT !.progress =
                      IF upload.onProgress
                      THEN Progress(upload.chunkIndex + 1, upload.totalChunks)
                      ELSE upload.progress],
                   upload.chunkIndex + 1)
  /\ UNCHANGED notUpVars

\* The post of a chunk rejects: uploadDocument throws.
ChunkFailed ==
  /\ upload.pc = "upload"
  /\ upload' = [upload EXCEPT !.pc = "failed"]
  /\ UNCHANGED notUpVars

\* triggerExtraction resolves, and uploadDocument with it.
ExtractionTriggered ==
  /\ upload.pc = "extract"
  /\ upload' = [upload EXCEPT !.pc = "done"]
  /\ UNCHANGED notUpVars

\* triggerExtraction throws, and uploadDocument with it.
ExtractionFailed ==
  /\ upload.pc = "extract"
  /\ upload' = [upload EXCEPT !.pc = "failed"]
  /\ UNCHANGED notUpVars

NextUpload ==
  \/ UploadDocument
  \/ ChunkPosted
  \/ ChunkFailed
  \/ ExtractionTriggered
  \/ ExtractionFailed

SpecUpload == InitRunQuery /\ [][NextUpload]_vars

\* C36 (as claimed): the chunks are posted in ascending index, one at a
\* time; the progress reported never decreases and is 100 only when the
\* last chunk was posted; the extraction request is sent only after every
\* chunk was posted, and never after a chunk failed.
C36_ProgressAndExtraction ==
  /\ [](upload.progress = 100 => upload.chunkIndex = upload.totalChunks)
  /\ [](upload.extractions > 0 => upload.chunkIndex = upload.totalChunks)
  /\ [](upload.extractions <= 1)
  /\ [][/\ upload'.progress >= upload.progress
         /\ upload'.posts \in {upload.posts, upload.posts + 1}
         /\ (upload'.posts > upload.posts
               => upload'.chunkIndex = upload.posts)
         /\ (upload.pc = "failed" => upload' = upload)]_vars

\* ---------------------------------------------------- IDTableContainer
\* Here a query is a sequence of single characters.
\* [a-zA-Z_]
NameStart == {"a", "b"}

\* \w
NameChars == NameStart \cup {"1"}

\* The match of /\b([a-zA-Z_]\w*):([a-zA-Z_]\w*)\b/ that starts at position
\* i of s.  Both \w* take the whole run of word characters: a shorter one
\* would be followed by a word character, where ":" or \b has to follow.
MatchNodePattern(s, i) ==
  LET colon == RunEnd(s, i, NameChars)
      end == RunEnd(s, colon + 1, NameChars)
  IN IF /\ At(s, i) \in NameStart
        /\ At(s, i - 1) \notin NameChars
        /\ At(s, colon) = ":"
        /\ At(s, colon + 1) \in NameStart
     THEN [found |-> TRUE, variable |-> SubSeq(s, i, colon - 1),
           label |-> SubSeq(s, colon + 1, end - 1), end |-> end]
     ELSE [found |-> FALSE, variable |-> <<>>, label |-> <<>>, end |-> i]

\* [...query.matchAll(nodePattern)], from position i on: the matches from
\* left to right, each search starting where the last match ended.
RECURSIVE MatchAll(_, _)
MatchAll(s, i) ==
  IF i > Len(s) THEN <<>>
  ELSE LET Step(m) ==
             IF m.found
             THEN <<[variable |-> m.variable, label |-> m.label]>>
                    \o MatchAll(s, m.end)
             ELSE MatchAll(s, i + 1)
       IN Step(MatchNodePattern(s, i))

\* Array.from(new Set(matches.map(match => match[1]))): the variables in
\* the order of their first match.
RECURSIVE UniqueNodeVariables(_, _)
UniqueNodeVariables(matches, seen) ==
  IF matches = <<>> THEN <<>>
  ELSE IF Head(matches).variable \in seen
  THEN UniqueNodeVariables(Tail(matches), seen)
  ELSE <<Head(matches).variable>>
         \o UniqueNodeVariables(Tail(matches),
                          seen \cup {Head(matches).variable})

\* matches.filter(match => match[1] === nodeVar).map(match => match[2])
\*   .join(':')
RECURSIVE NodeLabels(_, _, _)
NodeLabels(matches, nodeVar, first) ==
  IF matches = <<>> THEN <<>>
  ELSE IF Head(matches).variable = nodeVar
  THEN (IF first THEN <<>> ELSE <<":">>) \o Head(matches).label
         \o NodeLabels(Tail(matches), nodeVar, FALSE)
  ELSE NodeLabels(Tail(matches), nodeVar, first)

\* nodesWithProperties
NodesWithProperties(matches) ==
  LET nodeVariables == UniqueNodeVariables(matches, {})
  IN [n \in 1..Len(nodeVariables) |->
        [id |-> nodeVariables[n],
         label |-> NodeLabels(matches, nodeVariables[n], TRUE),
         description |-> <<"Node variable: ">> \o nodeVariables[n]]]

\* extractNodesFromQuery(): the nodeProperties it leaves, given those it
\* finds.  It awaits nothing, so it runs to its end inside the effect.
ExtractNodesFromQuery(q, isConnected, nodeProperties) ==
  IF q = <<>> \/ ~isConnected THEN <<>>
  ELSE LET Set(matches) ==
             IF Len(matches) = 0 THEN nodeProperties
             ELSE NodesWithProperties(matches)
       IN Set(MatchAll(q, 1))

\* The queries typed: every text of up to MaxQueryLen characters of five, and
\* three longer ones, with a variable matched twice and with two variables.
QueryInputs ==
  UNION {[1..k -> NameChars \cup {":", SP}] : k \in 0..MaxQueryLen}
    \cup {<<"a", ":", "b", SP, "a", ":", "a">>,
           <<"a", ":", "b", SP, "b", ":", "a">>,
           <<"(", "a", "1", ":", "b", ")", "-", "(", "b", ")">>}

notIdVars == <<wfVars, nzVars, pzVars, rqVars, hsVars, cnVars, upload, drivers>>

\* state.queryValue.value changes: the component renders and the effect runs.
QueryChanges ==
  /\ \E q \in QueryInputs :
       /\ q # idTable.query
       /\ idTable' =
            [idTable EXCEPT
               !.query = q,
               !.nodeProperties =
                 ExtractNodesFromQuery(q, idTable.isConnected,
                                       idTable.nodeProperties)]
  /\ UNCHANGED notIdVars

\* state.neo4jConnection.connected changes: the component renders and the
\* effect runs.
ConnectedChanges ==
  /\ idTable' =
       [idTable EXCEPT
          !.isConnected = ~idTable.isConnected,
          !.nodeProperties =
            ExtractNodesFromQuery(idTable.query, ~idTable.isConnected,
                                  idTable.nodeProperties)]
  /\ UNCHANGED notIdVars

NextIDTable == QueryChanges \/ ConnectedChanges

SpecIDTable == InitRunQuery /\ [][NextIDTable]_vars

\* C37 (as claimed): the table shows exactly the variables that occur as
\* var:Label in the current query, and nothing when the query is empty or
\* the store is not connected.
C37_TableOfCurrentQuery ==
  idTable.nodeProperties =
    IF idTable.query = <<>> \/ ~idTable.isConnected THEN <<>>
    ELSE NodesWithProperties(MatchAll(idTable.query, 1))

====
